---- MODULE Spec2Model ----
(***************************************************************************)
(* Model of the indexing supervisor of local-rag-workspaces:                *)
(*   backend/services/indexing_manager.py  (IndexingManager)                *)
(*   backend/services/indexer_core.py      (IndexerWithCallbacks)           *)
(*   backend/services/bucket_manager.py    (BucketManager)                  *)
(*   backend/services/minio_service.py     (MinioService)                   *)
(*   backend/services/chat_manager.py      (ChatManager)                    *)
(*   backend/routes/indexing.py, routes/buckets.py, routes/upload.py,       *)
(*   routes/search.py                                                       *)
(* and of the helper functions of the retrieval and of the input checks:    *)
(*   backend/services/rag_service.py       (reciprocal_rank_fusion)         *)
(*   backend/services/reranker_service.py  (rerank_documents)               *)
(*   backend/utils/sanitizers.py, backend/utils/validators.py               *)
(*                                                                          *)
(* Threads: the asyncio event loop (every route handler is `async def` and  *)
(* calls the services synchronously, so a handler is atomic with respect to *)
(* the other handlers and to the broadcaster task), and one daemon thread   *)
(* per indexing job (run_indexer).  The worker thread and the event loop    *)
(* share the IndexingManager and the BucketManager without any lock.  The   *)
(* answer of a chat request is saved from a thread of its own               *)
(* (asyncio.to_thread).                                                     *)
(***************************************************************************)
EXTENDS Integers, Sequences, FiniteSets, TLC

\* ------------------------------------------------------------------ bounds

\* jobs that may be started in one behaviour
MaxJobs == 2
\* websocket connections that may be opened in one behaviour
MaxSubs == 2
\* stop requests that may be issued in one behaviour
MaxStops == 1
\* select requests and delete requests that may be issued in one behaviour
MaxSelects == 1
MaxDeletes == 2
\* jobs that may be started in one behaviour of the specifications that
\* follow a single job
SingleJob == 1
\* chat sessions one Space may hold and messages one session may hold
MaxSessions == 3
MaxMessages == 2
\* chat sessions the Space may hold in the specification with the thread
\* that saves the answers
AnswerSessions == 2
\* times one object key may be written in one behaviour
MaxRevision == 2
\* the capacity the specification gives the progress queue (the code has none)
QueueCapacity == 3

\* the longest extracted text and the largest chunk_size
MaxText == 4
MaxChunk == 3
\* the longest result list one retrieval method returns
MaxResults == 2
\* the most candidates handed to the reranker and the largest top_k
MaxCandidates == 3
MaxTopK == 2
\* the longest name handed to a sanitizer
MaxName == 4
\* the files one walk of the cache directory finds, and the largest size and
\* modification time os.stat returns
MaxWalk == 2
MaxStat == 2

Jobs == 1..MaxJobs
Subs == 1..MaxSubs

\* ------------------------------------------------------------------ names

\* A name is a sequence of characters.
Upper == {"A", "B"}
Lower == {"a", "b", "c", "d", "e", "f", "k", "l", "t", "u"}
Digits == {"1"}

\* str.lower() on one character
ToLower(c) == IF c = "A" THEN "a" ELSE IF c = "B" THEN "b" ELSE c

\* str.isalnum() on one character
IsAlnum(c) == c \in Upper \cup Lower \cup Digits

RECURSIVE LStrip(_)
\* str.lstrip("-")
LStrip(s) == IF s # <<>> /\ Head(s) = "-" THEN LStrip(Tail(s)) ELSE s

RECURSIVE RStrip(_)
\* str.rstrip("-")
RStrip(s) ==
    IF s # <<>> /\ s[Len(s)] = "-" THEN RStrip(SubSeq(s, 1, Len(s) - 1)) ELSE s

\* MinioService._sanitize_bucket_name: every non-alphanumeric character
\* becomes a hyphen, the result is lowercased and hyphens are stripped at
\* both ends.
SanitizeBucketName(name) ==
    RStrip(LStrip([i \in 1..Len(name) |->
                      ToLower(IF IsAlnum(name[i]) THEN name[i] ELSE "-")]))

\* The Spaces that exist when the process starts, by display name.
SpaceA == <<"A">>
SpaceB == <<"b", " ">>
SpaceNames == {SpaceA, SpaceB}
\* A display name a create request may carry besides those: it differs from
\* SpaceA and has the same storage key.
SpaceLowerA == <<"a">>
\* the names the requests of the registry routes carry
RequestNames == SpaceNames \cup {SpaceLowerA}
StorageKeys == {SanitizeBucketName(n) : n \in SpaceNames}

NoName == <<>>

\* ------------------------------------------------------------------ files

\* Object keys under uploads/.  notes.md and guide.txt have a supported
\* extension, logo.png has not (file_types.is_supported_file).
Files == {"notes.md", "guide.txt", "logo.png"}

is_supported_file(f) == f \in {"notes.md", "guide.txt"}

\* os.walk order of the downloaded files
FileOrder == <<"guide.txt", "logo.png", "notes.md">>

\* number of chunk_size slices of the extracted text of a file
ChunksOf(f) == IF f = "notes.md" THEN 2 ELSE 1

\* BucketConfig.embedding_dim default (models/schemas.py)
DefaultEmbeddingDim == 768
\* length of the vector the embedding model returns for the probe
ProbedDim == 384

\* ------------------------------------------------------------------ state

VARIABLES
    is_running,         \* IndexingManager.is_running
    current_indexer,    \* IndexingManager.current_indexer: 0 (None) or the job's indexer
    websocket_clients,  \* IndexingManager.websocket_clients (a list)
    progress_queue,     \* IndexingManager.progress_queue (queue.Queue())
    last_progress,      \* IndexingManager.last_progress
    buckets,            \* BucketManager.buckets (a list of Bucket)
    current_bucket_name,\* BucketManager.current_bucket_name
    minio,              \* the object store: storage key -> bucket contents
    collections,        \* the vector store: the collection names that exist
    entities,           \* the vector store: dimension and rows of each collection
    should_stop,        \* IndexerWithCallbacks.should_stop of each job's indexer
    worker,             \* the run_indexer thread of each job
    loop_em,            \* the on_progress call the event loop thread is inside of
    clock,              \* datetime.utcnow(), one tick per reading
    snapshot_tasks,     \* tasks created by add_websocket, not yet run
    send_tasks,         \* the gather() of broadcast_progress: sockets still to send to
    send_event,         \* the event broadcast_progress took from the queue
    ws_state,           \* each websocket connection: "new", "open", "closed"
                        \* (the client left), "failed" (a send to it raised)
    joined,             \* what add_websocket read when each client connected
    received,           \* what each websocket client has received, in order
    jobs_started,       \* number of jobs started so far
    stops_issued,       \* number of stop requests so far
    selects_issued,     \* number of select requests so far
    deletes_issued,     \* number of delete requests so far
    response,           \* the last HTTP response of the start route
    current_session_id, \* ChatManager.current_session_id: Space name -> session
                        \* number, 0 when the Space has no entry
    new_session_id,     \* the id the last clear of each Space returned, 0 if none
    saver,              \* the asyncio.to_thread call of save_message for an answer
    call                \* the call of a helper function under study: its name,
                        \* its arguments and, once it returned, its result

vars == <<is_running, current_indexer, websocket_clients, progress_queue,
          last_progress, buckets, current_bucket_name, minio, collections,
          entities, should_stop, worker, loop_em, clock, snapshot_tasks, send_tasks,
          send_event, ws_state, joined, received, jobs_started, stops_issued,
          selects_issued, deletes_issued, response, current_session_id,
          new_session_id, saver, call>>

managerVars == <<is_running, current_indexer, websocket_clients,
                 progress_queue, last_progress>>
registryVars == <<buckets, current_bucket_name>>
vectorVars == <<collections, entities>>
chatVars == <<current_session_id, new_session_id, saver>>
socketVars == <<snapshot_tasks, send_tasks, send_event, ws_state, joined,
                received>>
budgetVars == <<jobs_started, stops_issued, selects_issued, deletes_issued>>

\* ------------------------------------------------------------------ values

\* event_data of on_progress / on_error: {"type", "data", "timestamp"}.
\* data_type is data["type"], job the indexing job whose callback built it.
NoEvent == [type |-> "none", data_type |-> "none", ts |-> 0, job |-> 0]

NoEm == [stage |-> "none", kind |-> "none", type |-> "none", job |-> 0,
         files_total |-> 0, embedding_dim |-> 0, ev |-> NoEvent]

\* A Bucket (models/schemas.py) as the registry caches it.
Bucket(name, dim, count, last, dirs) ==
    [name |-> name, embedding_dim |-> dim, file_count |-> count,
     last_indexed |-> last, directories |-> dirs]

NoConfig == [present |-> FALSE, name |-> NoName, embedding_dim |-> 0,
             file_count |-> 0, last_indexed |-> 0]

\* how many times each object key has been written: the revision of its
\* content (size and modification time change with it)
NoRevision == [f \in Files |-> 0]

\* chats/session<N>.json of one bucket: whether the object exists and the
\* list of messages it holds
Sessions == 1..MaxSessions
NoSession == [exists |-> FALSE, history |-> <<>>]
NoChats == [n \in Sessions |-> NoSession]

\* index/bm25.pkl of one bucket: the contents and the filenames of the
\* pickled BM25Service; both empty when the object does not exist
NoIndex == [contents |-> <<>>, filenames |-> <<>>]

NoBucketContents == [exists |-> FALSE, config_json |-> NoConfig,
                     progress_state |-> NoEvent,
                     progress_bucket_name |-> NoName, uploads |-> {},
                     revision |-> NoRevision, chats |-> NoChats,
                     bm25 |-> NoIndex]

IdleWorker == [pc |-> "idle", em |-> NoEm, bucket |-> NoName,
               embedding_dim |-> 0, files |-> <<>>, total_files |-> 0,
               file_idx |-> 0, chunk_idx |-> 0, files_processed |-> 0,
               data |-> <<>>, new_collection |-> FALSE,
               revision |-> NoRevision]

\* the thread that saves an answer: pc is the statement of save_message it
\* is at, session_file and history are its locals
IdleSaver == [pc |-> "idle", name |-> NoName, msg |-> "none",
              session_file |-> 0, history |-> <<>>]

\* is_running and last_progress as add_websocket finds them
NotJoined == [is_running |-> FALSE, last_progress |-> NoEvent]

NoResponse == [route |-> "none", status |-> 0, detail |-> "none"]

Response(route, status, detail) ==
    [route |-> route, status |-> status, detail |-> detail]

\* ------------------------------------------------------------------ registry

\* next((b for b in self.buckets if b.name == name), None): the index of
\* the first Bucket of the cache with that name, 0 for None
FindBucket(bs, name) ==
    IF \E i \in 1..Len(bs) : bs[i].name = name
    THEN CHOOSE i \in 1..Len(bs) :
            /\ bs[i].name = name
            /\ \A k \in 1..(i - 1) : bs[k].name # name
    ELSE 0

\* BucketManager.get_current_bucket
get_current_bucket(bs, cur) == IF cur = NoName THEN 0 ELSE FindBucket(bs, cur)

\* MinioService.put_json / put_object on a bucket: raises when the bucket
\* does not exist
BucketExists(m, name) ==
    LET k == SanitizeBucketName(name) IN k \in DOMAIN m /\ m[k].exists

\* config.json is not written
SavesNothing(m, b) == m

\* BucketManager._save_bucket_config: config.json of the Bucket's storage
\* bucket; a failed put_json is caught and printed
_save_bucket_config(m, b) ==
    IF BucketExists(m, b.name)
    THEN [m EXCEPT ![SanitizeBucketName(b.name)].config_json =
             [present |-> TRUE, name |-> b.name,
              embedding_dim |-> b.embedding_dim, file_count |-> b.file_count,
              last_indexed |-> b.last_indexed]]
    ELSE m

\* MinioService.list_objects(name, prefix="uploads/"): [] on any failure
list_objects(m, name) == IF BucketExists(m, name)
                         THEN m[SanitizeBucketName(name)].uploads
                         ELSE {}

\* BucketManager.sync_bucket_files
sync_bucket_files(bs, m, name) ==
    LET i == FindBucket(bs, name) IN
    IF i = 0 THEN bs
    ELSE [bs EXCEPT ![i].directories = list_objects(m, name)]

\* BucketManager.update_stats, on the cache
update_stats(bs, name, file_count, now) ==
    LET i == FindBucket(bs, name) IN
    IF i = 0 THEN bs
    ELSE [bs EXCEPT ![i].last_indexed = now, ![i].file_count = file_count]

\* The Space whose config on_progress writes back to on `complete`
StatsTarget(bs, cur, em) == get_current_bucket(bs, cur)

\* on_progress lines 86-95: the cache after the `complete` interception
InterceptBuckets(bs, cur, em, now) ==
    LET i == StatsTarget(bs, cur, em) IN
    IF i = 0 THEN bs
    ELSE LET bs1 == update_stats(bs, bs[i].name, em.files_total, now) IN
         IF em.embedding_dim # 0
         THEN [bs1 EXCEPT ![i].embedding_dim = em.embedding_dim]
         ELSE bs1

\* on_progress lines 86-95: the object store after the interception
InterceptMinio(bs, cur, m, em, now) ==
    LET i == StatsTarget(bs, cur, em) IN
    IF i = 0 THEN m ELSE _save_bucket_config(m, InterceptBuckets(bs, cur, em, now)[i])

\* The Space whose bucket _save_progress_state writes progress_state.json to
ProgressTarget(bs, cur, em) == get_current_bucket(bs, cur)

\* IndexingManager._save_progress_state
_save_progress_state(bs, cur, m, lp, em) ==
    LET i == ProgressTarget(bs, cur, em) IN
    IF lp # NoEvent /\ i # 0 /\ BucketExists(m, bs[i].name)
    THEN [m EXCEPT ![SanitizeBucketName(bs[i].name)].progress_state = lp,
                   ![SanitizeBucketName(bs[i].name)].progress_bucket_name = bs[i].name]
    ELSE m

\* ------------------------------------------------------------------ emission
\* One call of IndexingManager.on_progress or on_error, by the thread that
\* makes it.  Neither holds a lock, so the calls of two threads interleave
\* between the statements: stage names what the call has done so far.

\* the call as the callback receives it: kind is the callback, type is
\* kwargs["type"]
Call(kind, type, job, files_total, embedding_dim) ==
    [stage |-> "called", kind |-> kind, type |-> type, job |-> job,
     files_total |-> files_total, embedding_dim |-> embedding_dim,
     ev |-> NoEvent]

Progress(type, job) == Call("progress", type, job, 0, 0)
Error(type, job) == Call("error", type, job, 0, 0)

IsComplete(em) == em.kind = "progress" /\ em.type = "complete"

\* "type" of event_data: on_progress copies kwargs["type"], on_error
\* always writes "error"
EventType(em) == IF em.kind = "error" THEN "error" ELSE em.type

\* whether the callback ends with _save_progress_state()
Persists(em) == em.kind = "progress"

\* event_data as the call builds it at time now
EventData(em, now) ==
    [type |-> EventType(em), data_type |-> em.type, ts |-> now, job |-> em.job]

\* the call after its next statement
NextEm(em) ==
    CASE em.stage = "called" /\ IsComplete(em) ->
            [em EXCEPT !.stage = "intercepted"]
      [] em.stage = "called" /\ ~IsComplete(em) ->
            [em EXCEPT !.stage = "assigned", !.ev = EventData(em, clock + 1)]
      [] em.stage = "intercepted" ->
            [em EXCEPT !.stage = "assigned", !.ev = EventData(em, clock + 1)]
      [] em.stage = "assigned" ->
            IF Persists(em) THEN [em EXCEPT !.stage = "queued"] ELSE NoEm
      [] em.stage = "queued" -> NoEm

\* on_progress lines 86-95: the `complete` event is intercepted and the
\* statistics of the selected Space are updated and saved
EmIntercept(em) ==
    /\ em.stage = "called"
    /\ IsComplete(em)
    /\ clock' = clock + 1
    /\ buckets' = InterceptBuckets(buckets, current_bucket_name, em, clock + 1)
    /\ minio' = InterceptMinio(buckets, current_bucket_name, minio, em,
                               clock + 1)
    /\ UNCHANGED <<last_progress, progress_queue>>

\* on_progress lines 97-102, on_error lines 109-114: event_data is built
\* and assigned to last_progress
EmAssign(em) ==
    /\ \/ em.stage = "called" /\ ~IsComplete(em)
       \/ em.stage = "intercepted"
    /\ clock' = clock + 1
    /\ last_progress' = EventData(em, clock + 1)
    /\ UNCHANGED <<buckets, minio, progress_queue>>

\* the queue after progress_queue.put(event_data): queue.Queue() has no
\* maxsize, so put never blocks and never drops
QueuePut(q, ev) == Append(q, ev)

\* on_progress line 103, on_error line 115
EmPut(em) ==
    /\ em.stage = "assigned"
    /\ progress_queue' = QueuePut(progress_queue, em.ev)
    /\ UNCHANGED <<clock, buckets, minio, last_progress>>

\* on_progress line 106
EmSave(em) ==
    /\ em.stage = "queued"
    /\ minio' = _save_progress_state(buckets, current_bucket_name, minio,
                                     last_progress, em)
    /\ UNCHANGED <<clock, buckets, last_progress, progress_queue>>

\* the next statement of the call, on the shared state
EmStep(em) == EmIntercept(em) \/ EmAssign(em) \/ EmPut(em) \/ EmSave(em)

\* ------------------------------------------------------------------ event loop

LoopIdle == loop_em = NoEm

\* the check left out: a start request never finds a job running
NeverRunning == FALSE

\* the check `if manager.is_running` of the start route (routes/indexing.py
\* line 45) and of start_indexing_bucket (line 133)
AlreadyRunning == is_running

\* POST /indexing/start with no Space selected: 400
StartNoBucket ==
    /\ LoopIdle
    /\ get_current_bucket(buckets, current_bucket_name) = 0
    /\ response' = Response("start", 400, "no bucket")
    /\ UNCHANGED <<managerVars, registryVars, minio, vectorVars, should_stop,
                   worker, loop_em, clock, socketVars, budgetVars,
                   chatVars, call>>

\* POST /indexing/start while a job runs: 400
StartAlreadyRunning ==
    /\ LoopIdle
    /\ get_current_bucket(buckets, current_bucket_name) # 0
    /\ AlreadyRunning
    /\ response' = Response("start", 400, "already running")
    /\ UNCHANGED <<managerVars, registryVars, minio, vectorVars, should_stop,
                   worker, loop_em, clock, socketVars, budgetVars,
                   chatVars, call>>

\* POST /indexing/start, uploads/ of the selected Space is empty:
\* start_indexing_bucket raises after sync_bucket_files, the route answers 500
StartNoFiles ==
    /\ LoopIdle
    /\ get_current_bucket(buckets, current_bucket_name) # 0
    /\ ~AlreadyRunning
    /\ list_objects(minio, current_bucket_name) = {}
    /\ buckets' = sync_bucket_files(buckets, minio, current_bucket_name)
    /\ response' = Response("start", 500, "no files")
    /\ UNCHANGED <<managerVars, current_bucket_name, minio, vectorVars,
                   should_stop, worker, loop_em, clock, socketVars, budgetVars,
                   chatVars, call>>

\* POST /indexing/start accepted: is_running is set and the thread started.
\* run_indexer closes over the Bucket object; the embedding_dim it reads from
\* it at line 188 is the one the object holds now, since nothing writes the
\* object while no job runs
StartAccepted(limit) ==
    /\ LoopIdle
    /\ jobs_started < limit
    /\ get_current_bucket(buckets, current_bucket_name) # 0
    /\ ~AlreadyRunning
    /\ list_objects(minio, current_bucket_name) # {}
    /\ buckets' = sync_bucket_files(buckets, minio, current_bucket_name)
    /\ is_running' = TRUE
    /\ last_progress' = NoEvent
    /\ jobs_started' = jobs_started + 1
    /\ worker' = [worker EXCEPT ![jobs_started + 1] =
                     [IdleWorker EXCEPT
                         !.pc = "start",
                         !.bucket = current_bucket_name,
                         !.embedding_dim =
                             buckets[FindBucket(buckets, current_bucket_name)]
                                 .embedding_dim]]
    /\ response' = Response("start", 200, "started")
    /\ UNCHANGED <<current_indexer, websocket_clients, progress_queue,
                   current_bucket_name, minio, vectorVars, should_stop,
                   loop_em, clock, socketVars, stops_issued, selects_issued,
                   deletes_issued,
                   chatVars, call>>

\* routes/indexing.py start_indexing
start_indexing(limit) ==
    \/ StartNoBucket
    \/ StartAlreadyRunning
    \/ StartNoFiles
    \/ StartAccepted(limit)

\* the check of IndexingManager.stop_indexing (line 224)
CanStop == is_running /\ current_indexer # 0

\* POST /indexing/stop with no job running: 400
StopNotRunning ==
    /\ LoopIdle
    /\ stops_issued < MaxStops
    /\ ~is_running
    /\ stops_issued' = stops_issued + 1
    /\ UNCHANGED <<managerVars, registryVars, minio, vectorVars, should_stop,
                   worker, loop_em, clock, socketVars, jobs_started,
                   selects_issued, deletes_issued, response,
                   chatVars, call>>

\* POST /indexing/stop, stop_indexing returns False: 500
StopFailed ==
    /\ LoopIdle
    /\ stops_issued < MaxStops
    /\ is_running
    /\ ~CanStop
    /\ stops_issued' = stops_issued + 1
    /\ UNCHANGED <<managerVars, registryVars, minio, vectorVars, should_stop,
                   worker, loop_em, clock, socketVars, jobs_started,
                   selects_issued, deletes_issued, response,
                   chatVars, call>>

\* POST /indexing/stop, stop_indexing calls current_indexer.stop(): the
\* flag is set and the event loop thread enters on_progress(type='stopped')
StopSignalled ==
    /\ LoopIdle
    /\ stops_issued < MaxStops
    /\ is_running
    /\ CanStop
    /\ should_stop' = [should_stop EXCEPT ![current_indexer] = TRUE]
    /\ loop_em' = Progress("stopped", current_indexer)
    /\ stops_issued' = stops_issued + 1
    /\ UNCHANGED <<managerVars, registryVars, minio, vectorVars, worker,
                   clock, socketVars, jobs_started, selects_issued,
                   deletes_issued, response,
                   chatVars, call>>

\* routes/indexing.py stop_indexing
stop_indexing ==
    \/ StopNotRunning
    \/ StopFailed
    \/ StopSignalled

\* the event loop thread runs the next statement of on_progress('stopped')
LoopEmit ==
    /\ ~LoopIdle
    /\ EmStep(loop_em)
    /\ loop_em' = NextEm(loop_em)
    /\ UNCHANGED <<is_running, current_indexer, websocket_clients,
                   current_bucket_name, vectorVars, should_stop, worker,
                   socketVars, budgetVars, response,
                   chatVars, call>>

\* a removal that empties the list
RemoveEveryWebsocket(clients, ws) == <<>>

\* list.remove(x) guarded by `x in list`: IndexingManager.remove_websocket
remove_websocket(clients, ws) ==
    SelectSeq(clients, LAMBDA c : c # ws)

\* the task add_websocket creates when last_progress is set
SnapshotTask(ws, lp) == IF lp # NoEvent THEN {<<ws, lp>>} ELSE {}

\* /ws/indexing: accept() and IndexingManager.add_websocket
add_websocket(ws) ==
    /\ LoopIdle
    /\ ws_state[ws] = "new"
    /\ \A w \in Subs : w < ws => ws_state[w] # "new"
    /\ ws_state' = [ws_state EXCEPT ![ws] = "open"]
    /\ websocket_clients' = Append(websocket_clients, ws)
    /\ snapshot_tasks' = snapshot_tasks \cup SnapshotTask(ws, last_progress)
    /\ joined' = [joined EXCEPT ![ws] = [is_running |-> is_running,
                                         last_progress |-> last_progress]]
    /\ UNCHANGED <<is_running, current_indexer, progress_queue, last_progress,
                   registryVars, minio, vectorVars, should_stop, worker,
                   loop_em, clock, send_tasks, send_event, received,
                   budgetVars, response,
                   chatVars, call>>

\* /ws/indexing: receive_text raises WebSocketDisconnect, the handler calls
\* remove_websocket
websocket_disconnect(ws) ==
    /\ LoopIdle
    /\ ws_state[ws] = "open"
    /\ ws_state' = [ws_state EXCEPT ![ws] = "closed"]
    /\ websocket_clients' = remove_websocket(websocket_clients, ws)
    /\ UNCHANGED <<is_running, current_indexer, progress_queue, last_progress,
                   registryVars, minio, vectorVars, should_stop, worker,
                   loop_em, clock, snapshot_tasks, send_tasks, send_event,
                   joined, received, budgetVars, response,
                   chatVars, call>>

\* IndexingManager._send_to_websocket: send_json succeeded
SendOk(ws, ev) ==
    /\ ws_state[ws] = "open"
    /\ received' = [received EXCEPT ![ws] = Append(@, ev)]
    /\ UNCHANGED <<websocket_clients, ws_state>>

\* IndexingManager._send_to_websocket: send_json raised, the except branch
\* removes the socket
SendFailed(ws, ev) ==
    /\ websocket_clients' = remove_websocket(websocket_clients, ws)
    /\ ws_state' = [ws_state EXCEPT ![ws] = "failed"]
    /\ UNCHANGED received

\* the task created by add_websocket runs
SnapshotSend ==
    /\ LoopIdle
    /\ \E t \in snapshot_tasks :
          /\ snapshot_tasks' = snapshot_tasks \ {t}
          /\ \/ SendOk(t[1], t[2])
             \/ SendFailed(t[1], t[2])
    /\ UNCHANGED <<is_running, current_indexer, progress_queue, last_progress,
                   registryVars, minio, vectorVars, should_stop, worker,
                   loop_em, clock, send_tasks, send_event, joined, budgetVars,
                   response,
                   chatVars, call>>

\* the sockets broadcast_progress builds its tasks for (line 124);
\* none when websocket_clients is empty (line 122)
BroadcastTargets(clients) == {clients[i] : i \in 1..Len(clients)}

\* broadcast_progress, lines 120-124: one iteration takes the oldest event
\* of the queue and builds a send task for each client of the moment
BroadcastGet ==
    /\ LoopIdle
    /\ send_tasks = {}
    /\ snapshot_tasks = {}
    /\ progress_queue # <<>>
    /\ progress_queue' = Tail(progress_queue)
    /\ send_event' = Head(progress_queue)
    /\ send_tasks' = BroadcastTargets(websocket_clients)
    /\ UNCHANGED <<is_running, current_indexer, websocket_clients,
                   last_progress, registryVars, minio, vectorVars,
                   should_stop, worker, loop_em, clock, snapshot_tasks,
                   ws_state, joined, received, budgetVars, response,
                   chatVars, call>>

\* broadcast_progress, line 125: one task of the gather() runs
BroadcastSend ==
    /\ LoopIdle
    /\ \E ws \in send_tasks :
          /\ send_tasks' = send_tasks \ {ws}
          /\ \/ SendOk(ws, send_event)
             \/ SendFailed(ws, send_event)
    /\ UNCHANGED <<is_running, current_indexer, progress_queue, last_progress,
                   registryVars, minio, vectorVars, should_stop, worker,
                   loop_em, clock, snapshot_tasks, send_event, joined,
                   budgetVars, response,
                   chatVars, call>>

\* ------------------------------------------------------------------ registry routes

\* order of MinioService.list_buckets()
KeyOrder == <<SanitizeBucketName(SpaceA), SanitizeBucketName(SpaceB)>>

\* the Bucket _load_buckets rebuilds from config.json and uploads/ of one
\* storage bucket
LoadedBucket(m, k) ==
    LET c == m[k].config_json IN
    Bucket(IF c.present THEN c.name ELSE k,
           IF c.present THEN c.embedding_dim ELSE DefaultEmbeddingDim,
           IF c.present THEN c.file_count ELSE 0,
           IF c.present THEN c.last_indexed ELSE 0,
           m[k].uploads)

\* BucketManager._load_buckets: the cache rebuilt from the object store
_load_buckets(m) ==
    LET present == SelectSeq(KeyOrder, LAMBDA k : m[k].exists) IN
    [i \in 1..Len(present) |-> LoadedBucket(m, present[i])]

\* current_bucket_name after _load_buckets (lines 69-70)
LoadedCurrent(bs, cur) == IF bs # <<>> /\ cur = NoName THEN bs[1].name ELSE cur

\* POST /buckets/{name}/select, the Space is in the cache
SelectCached(name) ==
    /\ FindBucket(buckets, name) # 0
    /\ current_bucket_name' = name
    /\ buckets' = sync_bucket_files(buckets, minio, name)

\* POST /buckets/{name}/select, the Space is not in the cache: the cache is
\* reloaded from the object store, then 404 or the selection
SelectReload(name) ==
    /\ FindBucket(buckets, name) = 0
    /\ LET bs == _load_buckets(minio) IN
       IF FindBucket(bs, name) = 0
       THEN /\ buckets' = bs
            /\ current_bucket_name' = LoadedCurrent(bs, current_bucket_name)
       ELSE /\ buckets' = sync_bucket_files(bs, minio, name)
            /\ current_bucket_name' = name

\* routes/buckets.py select_bucket
select_bucket ==
    /\ LoopIdle
    /\ selects_issued < MaxSelects
    /\ selects_issued' = selects_issued + 1
    /\ \E name \in RequestNames : SelectCached(name) \/ SelectReload(name)
    /\ UNCHANGED <<managerVars, minio, vectorVars, should_stop, worker,
                   loop_em, clock, socketVars, jobs_started, stops_issued,
                   deletes_issued, response,
                   chatVars, call>>

\* the objects removed and the bucket left in place
ObjectsOnlyDeleted(m, name) ==
    [m EXCEPT ![SanitizeBucketName(name)] =
        [NoBucketContents EXCEPT !.exists = TRUE]]

\* MinioService.delete_bucket: every object and the bucket removed
DeletedBucket(m, name) ==
    [m EXCEPT ![SanitizeBucketName(name)] = NoBucketContents]

\* DELETE /buckets/{name}: the storage bucket is deleted, the Space leaves
\* the cache and the selection moves to the first remaining Space
DeleteOk(name) ==
    /\ FindBucket(buckets, name) # 0
    /\ BucketExists(minio, name)
    /\ minio' = DeletedBucket(minio, name)
    /\ LET rest == SelectSeq(buckets, LAMBDA b : b.name # name) IN
       /\ buckets' = rest
       /\ current_bucket_name' =
             IF current_bucket_name = name
             THEN (IF rest # <<>> THEN rest[1].name ELSE NoName)
             ELSE current_bucket_name

\* DELETE /buckets/{name}, the Space is not in the cache: 404
DeleteNotFound(name) ==
    /\ FindBucket(buckets, name) = 0
    /\ UNCHANGED <<minio, buckets, current_bucket_name>>

\* the bucket with no object left in it
EmptiedBucket(m, name) ==
    [m EXCEPT ![SanitizeBucketName(name)] =
        [NoBucketContents EXCEPT !.exists = TRUE]]

\* MinioService.delete_bucket raising (lines 195-207): listing a missing
\* bucket raises at once; otherwise the objects are removed in listing
\* order (chats/, config.json, progress_state.json, uploads/) until the
\* call that fails, the last being remove_bucket
PartlyDeleted(m, name) ==
    IF BucketExists(m, name)
    THEN {m,
          [m EXCEPT ![SanitizeBucketName(name)].chats = NoChats,
                    ![SanitizeBucketName(name)].config_json = NoConfig],
          EmptiedBucket(m, name)}
    ELSE {m}

\* DELETE /buckets/{name}, the object store fails: BucketManager.delete_bucket
\* re-raises before it touches the cache (lines 195-201), 500
DeleteFailed(name) ==
    /\ FindBucket(buckets, name) # 0
    /\ minio' \in PartlyDeleted(minio, name)
    /\ UNCHANGED <<buckets, current_bucket_name>>

\* routes/buckets.py delete_bucket
delete_bucket ==
    /\ LoopIdle
    /\ deletes_issued < MaxDeletes
    /\ deletes_issued' = deletes_issued + 1
    /\ \E name \in RequestNames :
          DeleteOk(name) \/ DeleteNotFound(name) \/ DeleteFailed(name)
    /\ UNCHANGED <<managerVars, vectorVars, should_stop, worker, loop_em,
                   clock, socketVars, jobs_started, stops_issued,
                   selects_issued, response,
                   chatVars, call>>

\* MinioService.ensure_bucket returning True: the bucket exists afterwards
ensure_bucket(m, name) == [m EXCEPT ![SanitizeBucketName(name)].exists = TRUE]

\* the outcomes of the ensure_bucket call the create route makes first and
\* whose result it ignores (routes/buckets.py line 36)
RouteEnsured(m, name) == {m, ensure_bucket(m, name)}

\* Bucket(name=name, config=new_config): no file, never indexed
NewBucket(name, dim) == Bucket(name, dim, 0, 0, {})

\* POST /buckets, the name is in the cache: ValueError, 400
CreateExists(name) ==
    /\ FindBucket(buckets, name) # 0
    /\ minio' \in RouteEnsured(minio, name)
    /\ UNCHANGED <<buckets, current_bucket_name>>

\* POST /buckets, ensure_bucket returns False in BucketManager.create_bucket
\* (lines 107-108): ValueError, 400
CreateFailed(name) ==
    /\ FindBucket(buckets, name) = 0
    /\ minio' \in RouteEnsured(minio, name)
    /\ UNCHANGED <<buckets, current_bucket_name>>

\* POST /buckets, the name is not in the cache and the bucket is ensured:
\* config.json is saved, the Space appended and selected
CreateOk(name, dim) ==
    /\ FindBucket(buckets, name) = 0
    /\ minio' = _save_bucket_config(ensure_bucket(minio, name),
                                    NewBucket(name, dim))
    /\ buckets' = Append(buckets, NewBucket(name, dim))
    /\ current_bucket_name' = name

\* routes/buckets.py create_bucket
create_bucket ==
    /\ LoopIdle
    /\ \E name \in RequestNames :
          \/ CreateExists(name)
          \/ CreateFailed(name)
          \/ \E dim \in {DefaultEmbeddingDim, ProbedDim} : CreateOk(name, dim)
    /\ UNCHANGED <<managerVars, vectorVars, should_stop, worker, loop_em,
                   clock, socketVars, budgetVars, response, chatVars, call>>

\* ------------------------------------------------------------------ uploads

\* MinioService.upload_stream: put_object writes the object, replacing the
\* one of the same key
upload_stream(m, name, f) ==
    [m EXCEPT ![SanitizeBucketName(name)].uploads = @ \cup {f},
              ![SanitizeBucketName(name)].revision[f] = @ + 1]

\* MinioService.remove_object
remove_object(m, name, f) ==
    [m EXCEPT ![SanitizeBucketName(name)].uploads = @ \ {f}]

\* POST /upload/{bucket_name} with one file of a supported type (the route
\* skips the others, lines 57-62): the route makes sure of the bucket (line
\* 39), the object is written under uploads/ and the cached file list of the
\* Space is refreshed
upload_files(name, f) ==
    /\ LoopIdle
    /\ is_supported_file(f)
    /\ minio[SanitizeBucketName(name)].revision[f] < MaxRevision
    /\ minio' = upload_stream(ensure_bucket(minio, name), name, f)
    /\ buckets' = sync_bucket_files(buckets, minio', name)
    /\ UNCHANGED <<managerVars, current_bucket_name, vectorVars, should_stop,
                   worker, loop_em, clock, socketVars, budgetVars, response,
                   chatVars, call>>

\* DELETE /buckets/{name}/directories with one path:
\* BucketManager.remove_directories removes the object and refreshes the
\* cached file list when the Space is in the cache
remove_directories(name, f) ==
    /\ LoopIdle
    /\ f \in list_objects(minio, name)
    /\ IF FindBucket(buckets, name) = 0
       THEN UNCHANGED <<minio, buckets>>
       ELSE /\ minio' = remove_object(minio, name, f)
            /\ buckets' =
                  sync_bucket_files(buckets, remove_object(minio, name, f), name)
    /\ UNCHANGED <<managerVars, current_bucket_name, vectorVars, should_stop,
                   worker, loop_em, clock, socketVars, budgetVars, response,
                   chatVars, call>>

\* BucketManager.update_bucket_config on the cache: the config of the Space
\* is replaced (the model keeps its embedding_dim)
ConfiguredBuckets(bs, name, dim) ==
    [bs EXCEPT ![FindBucket(bs, name)].embedding_dim = dim]

\* PUT /buckets/{name}/config: 404 when the Space is not in the cache,
\* otherwise the config is replaced and config.json saved
update_bucket_config(name, dim) ==
    /\ LoopIdle
    /\ IF FindBucket(buckets, name) = 0
       THEN UNCHANGED <<minio, buckets>>
       ELSE /\ buckets' = ConfiguredBuckets(buckets, name, dim)
            /\ minio' =
                  _save_bucket_config(minio,
                      ConfiguredBuckets(buckets, name, dim)[FindBucket(buckets, name)])
    /\ UNCHANGED <<managerVars, current_bucket_name, vectorVars, should_stop,
                   worker, loop_em, clock, socketVars, budgetVars, response,
                   chatVars, call>>

\* ------------------------------------------------------------------ chat
\* ChatManager (services/chat_manager.py) and its routes (routes/search.py)

\* the text of a chat message
Messages == {"question", "answer"}

\* MinioService.list_objects(name, prefix="chats/session"), as the session
\* numbers of the objects: [] when the bucket cannot be listed
SessionIds(m, name) ==
    IF BucketExists(m, name)
    THEN {n \in Sessions : m[SanitizeBucketName(name)].chats[n].exists}
    ELSE {}

\* the loop over the listed sessions that keeps the largest number
MaxId(ids) == IF ids = {} THEN 0 ELSE CHOOSE n \in ids : \A k \in ids : k <= n

\* ChatManager._get_active_session_file: the latest session, session 1
\* when there is none
_get_active_session_file(m, name) ==
    IF MaxId(SessionIds(m, name)) > 0 THEN MaxId(SessionIds(m, name)) ELSE 1

\* clear allocates the number of the latest session again
ReusesLatestSession(m, name) == _get_active_session_file(m, name)

\* ChatManager.create_new_session
create_new_session(m, name) == MaxId(SessionIds(m, name)) + 1

RECURSIVE SortedDescending(_)
\* the numbers of a set, largest first
SortedDescending(ids) ==
    IF ids = {} THEN <<>>
    ELSE <<MaxId(ids)>> \o SortedDescending(ids \ {MaxId(ids)})

\* ChatManager.list_sessions: the session ids, newest first
list_sessions(m, name) == SortedDescending(SessionIds(m, name))

\* MinioService.get_json of a session file: the stored list, [] when the
\* object or the bucket is missing
SessionHistory(m, name, id) ==
    IF BucketExists(m, name) /\ m[SanitizeBucketName(name)].chats[id].exists
    THEN m[SanitizeBucketName(name)].chats[id].history
    ELSE <<>>

\* MinioService.put_json of a session file (the bucket exists)
PutSession(m, name, id, history) ==
    [m EXCEPT ![SanitizeBucketName(name)].chats[id] =
        [exists |-> TRUE, history |-> history]]

\* what a chat request leaves alone
ChatFrame ==
    UNCHANGED <<managerVars, registryVars, vectorVars, should_stop, worker,
                loop_em, clock, socketVars, budgetVars, response, call>>

\* DELETE /chat/history/{bucket_name} and POST /chat/sessions/{name}/new:
\* ChatManager.clear_history; put_json raises when the bucket is missing and
\* nothing has changed then
clear_history(name) ==
    /\ LoopIdle
    /\ create_new_session(minio, name) \in Sessions
    /\ IF BucketExists(minio, name)
       THEN /\ minio' = PutSession(minio, name,
                                   create_new_session(minio, name), <<>>)
            /\ current_session_id' =
                  [current_session_id EXCEPT
                      ![name] = create_new_session(minio, name)]
            /\ new_session_id' =
                  [new_session_id EXCEPT
                      ![name] = create_new_session(minio, name)]
            /\ UNCHANGED saver
       ELSE UNCHANGED <<minio, chatVars>>
    /\ ChatFrame

\* the session save_message and get_history use: the Space's entry of
\* current_session_id, which they set to the latest session when missing
ActiveSession(m, cur, name) ==
    IF cur[name] # 0 THEN cur[name] ELSE _get_active_session_file(m, name)

\* ChatManager.save_message called by the chat route for the user's
\* message: the history of the active session is read, the message is
\* appended and the list is written back; put_json raises when the bucket
\* is missing
save_message(name, msg) ==
    /\ LoopIdle
    /\ Len(SessionHistory(minio, name,
                          ActiveSession(minio, current_session_id, name)))
          < MaxMessages
    /\ current_session_id' =
          [current_session_id EXCEPT
              ![name] = ActiveSession(minio, current_session_id, name)]
    /\ IF BucketExists(minio, name)
       THEN minio' =
              PutSession(minio, name,
                  ActiveSession(minio, current_session_id, name),
                  Append(SessionHistory(minio, name,
                             ActiveSession(minio, current_session_id, name)),
                         msg))
       ELSE UNCHANGED minio
    /\ UNCHANGED <<new_session_id, saver>>
    /\ ChatFrame

\* GET /chat/sessions/{bucket_name}/{session_id}: ChatManager.load_session
\* makes the session the active one and reads it
load_session(name, id) ==
    /\ LoopIdle
    /\ current_session_id' = [current_session_id EXCEPT ![name] = id]
    /\ UNCHANGED <<minio, new_session_id, saver>>
    /\ ChatFrame

\* generate_stream lines 277-283: the answer is complete and its
\* save_message is handed to a thread of the default executor
SaverStart(name, msg) ==
    /\ saver.pc = "idle"
    /\ \A id \in Sessions : Len(SessionHistory(minio, name, id)) < MaxMessages
    /\ saver' = [IdleSaver EXCEPT !.pc = "resolve", !.name = name, !.msg = msg]
    /\ UNCHANGED <<minio, current_session_id, new_session_id>>
    /\ ChatFrame

\* save_message lines 131-134: the test `bucket_name in
\* self.current_session_id`, and the entry or the latest session read
SaverResolve ==
    /\ saver.pc = "resolve"
    /\ saver' =
          IF current_session_id[saver.name] # 0
          THEN [saver EXCEPT !.pc = "read",
                             !.session_file = current_session_id[saver.name]]
          ELSE [saver EXCEPT !.pc = "assign",
                             !.session_file =
                                 _get_active_session_file(minio, saver.name)]
    /\ UNCHANGED <<minio, current_session_id, new_session_id>>
    /\ ChatFrame

\* save_message line 135: the entry of the Space is assigned
SaverAssign ==
    /\ saver.pc = "assign"
    /\ current_session_id' =
          [current_session_id EXCEPT ![saver.name] = saver.session_file]
    /\ saver' = [saver EXCEPT !.pc = "read"]
    /\ UNCHANGED <<minio, new_session_id>>
    /\ ChatFrame

\* save_message line 137: get_history reads the session the entry names now
SaverRead ==
    /\ saver.pc = "read"
    /\ saver' = [saver EXCEPT
          !.pc = "put",
          !.history = SessionHistory(minio, saver.name,
                                     current_session_id[saver.name])]
    /\ UNCHANGED <<minio, current_session_id, new_session_id>>
    /\ ChatFrame

\* save_message lines 139-150: the message is appended to the list read and
\* the list is written to session_file; put_json raises when the bucket is
\* missing
SaverPut ==
    /\ saver.pc = "put"
    /\ minio' = IF BucketExists(minio, saver.name)
                THEN PutSession(minio, saver.name, saver.session_file,
                                Append(saver.history, saver.msg))
                ELSE minio
    /\ saver' = IdleSaver
    /\ UNCHANGED <<current_session_id, new_session_id>>
    /\ ChatFrame

\* the thread runs its next statement
SaverNext == SaverResolve \/ SaverAssign \/ SaverRead \/ SaverPut

\* another client of the object store writes an empty session file
ExternalSession(name, id) ==
    /\ BucketExists(minio, name)
    /\ id \notin SessionIds(minio, name)
    /\ minio' = PutSession(minio, name, id, <<>>)
    /\ UNCHANGED chatVars
    /\ ChatFrame

\* ------------------------------------------------------------------ worker
\* The run_indexer thread of job j (indexing_manager.py lines 155-218) and
\* the IndexerWithCallbacks.run() it calls.  pc is the statement the thread
\* is at; em is the callback call it is inside of.

\* IndexerWithCallbacks.__init__ line 37: re.sub(r'[^a-zA-Z0-9_]', '_', name)
CollectionName(name) ==
    [i \in 1..Len(name) |->
        IF IsAlnum(name[i]) \/ name[i] = "_" THEN name[i] ELSE "_"]

AtPc(j, pc) == worker[j].pc = pc /\ worker[j].em = NoEm

Goto(j, pc, em) ==
    worker' = [worker EXCEPT ![j].pc = pc, ![j].em = em]

\* what a worker statement that is no callback call leaves alone
WorkerFrame ==
    UNCHANGED <<is_running, current_indexer, websocket_clients, progress_queue,
                last_progress, registryVars, minio, vectorVars, should_stop,
                loop_em, clock, socketVars, budgetVars, response,
                   chatVars, call>>

\* what a statement on the vector store leaves alone
VectorFrame ==
    UNCHANGED <<is_running, current_indexer, websocket_clients, progress_queue,
                last_progress, registryVars, minio, should_stop, loop_em,
                clock, socketVars, budgetVars, response, chatVars, call>>

\* the collection names the vector store may hold: those of the display
\* names, and of the storage keys _load_buckets uses as names
CollectionKeys == {CollectionName(n) : n \in RequestNames \cup StorageKeys}

\* Collection(name, schema) lines 137-142 and 153: a new, empty collection
\* whose embedding field has the dimension of the schema
NewCollection(dim) == [dim |-> dim, rows |-> {}]

\* no collection holds anything
NoEntities == [c \in CollectionKeys |-> NewCollection(0)]

\* the thread runs the next statement of the callback it is inside of
WorkerEmit(j) ==
    /\ worker[j].em # NoEm
    /\ EmStep(worker[j].em)
    /\ worker' = [worker EXCEPT ![j].em = NextEm(worker[j].em)]
    /\ UNCHANGED <<is_running, current_indexer, websocket_clients,
                   current_bucket_name, vectorVars, should_stop, loop_em,
                   socketVars, budgetVars, response,
                   chatVars, call>>

\* lines 157-167: the thread starts and reports `downloading`
WStart(j) ==
    /\ AtPc(j, "start")
    /\ Goto(j, "download", Progress("downloading", j))
    /\ WorkerFrame

\* the supported files of a download, in walk order
Downloaded(m, name) ==
    SelectSeq(FileOrder, LAMBDA f : f \in list_objects(m, name))

\* line 171: minio_service.download_bucket, which raises on any failure
WDownload(j) ==
    /\ AtPc(j, "download")
    /\ \/ /\ BucketExists(minio, worker[j].bucket)
          /\ worker' = [worker EXCEPT
                ![j].pc = "init",
                ![j].files = SelectSeq(Downloaded(minio, worker[j].bucket),
                                       is_supported_file),
                ![j].revision =
                    minio[SanitizeBucketName(worker[j].bucket)].revision]
       \/ Goto(j, "except", NoEm)
    /\ WorkerFrame

\* lines 184-198: the indexer is built from the Bucket's config and
\* published as current_indexer
WInit(j) ==
    /\ AtPc(j, "init")
    /\ current_indexer' = j
    /\ Goto(j, "connect", NoEm)
    /\ UNCHANGED <<is_running, websocket_clients, progress_queue,
                   last_progress, registryVars, minio, vectorVars,
                   should_stop, loop_em, clock, socketVars, budgetVars,
                   response,
                   chatVars, call>>

\* run() lines 362-363: validate_paths (the target directory exists) and
\* connect_to_milvus, which reports its failure and makes run() return
WConnect(j) ==
    /\ AtPc(j, "connect")
    /\ \/ Goto(j, "counting", Progress("milvus_connected", j))
       \/ Goto(j, "finally", Error("error", j))
    /\ WorkerFrame

\* run() line 368
WCounting(j) ==
    /\ AtPc(j, "counting")
    /\ Goto(j, "count", Progress("counting_files", j))
    /\ WorkerFrame

\* IndexerWithCallbacks.__init__ line 46: `indexed_files_metadata or {}`,
\* filename -> (size, mtime) of the files an earlier run indexed.  run_indexer
\* (indexing_manager.py lines 189-197) passes no indexed_files_metadata, so
\* every indexer of the program is built with the empty dict.
indexed_files_metadata(j) == {}

\* run() line 366
has_existing_index(j) == indexed_files_metadata(j) # {}

\* IndexerWithCallbacks.file_needs_indexing: the file is not in the metadata
\* or its size or mtime differ from the stored ones
file_needs_indexing(j, f) ==
    [filename |-> f, revision |-> worker[j].revision[f]]
        \notin indexed_files_metadata(j)

\* count_files lines 166-174: the files to process, all the supported files
\* of a full index and the new or changed ones of an incremental index
FilesToProcess(j) ==
    SelectSeq(worker[j].files,
              LAMBDA f : ~has_existing_index(j) \/ file_needs_indexing(j, f))

\* run() lines 369-379: count_files and `files_counted`
WCount(j) ==
    /\ AtPc(j, "count")
    /\ worker' = [worker EXCEPT ![j].pc = "counted",
                                ![j].total_files = Len(worker[j].files),
                                ![j].files = FilesToProcess(j),
                                ![j].em = Progress("files_counted", j)]
    /\ WorkerFrame

\* run() lines 381-383: nothing to process, `complete` and return
WCounted(j) ==
    /\ AtPc(j, "counted")
    /\ IF worker[j].files = <<>>
       THEN Goto(j, "finally",
                 Call("progress", "complete", j, worker[j].total_files, 0))
       ELSE Goto(j, "setup", NoEm)
    /\ WorkerFrame

\* setup_collection lines 126-128
WSetup(j) ==
    /\ AtPc(j, "setup")
    /\ IF worker[j].embedding_dim = 0
       THEN Goto(j, "probe", Progress("detecting_dimension", j))
       ELSE Goto(j, "has_collection", NoEm)
    /\ WorkerFrame

\* setup_collection lines 129-134: the probe embedding; its failure is
\* reported and raised
WProbe(j) ==
    /\ AtPc(j, "probe")
    /\ \/ worker' = [worker EXCEPT ![j].pc = "has_collection",
                                   ![j].embedding_dim = ProbedDim,
                                   ![j].em = Progress("dimension_detected", j)]
       \/ Goto(j, "run_except", Error("error", j))
    /\ WorkerFrame

\* setup_collection lines 144-157: an existing collection is dropped, then
\* the collection is created; a vector store failure raises
WHasCollection(j) ==
    /\ AtPc(j, "has_collection")
    /\ \/ IF CollectionName(worker[j].bucket) \in collections
          THEN /\ Goto(j, "drop", Progress("collection_reset", j))
               /\ UNCHANGED vectorVars
          ELSE /\ collections' =
                     collections \cup {CollectionName(worker[j].bucket)}
               /\ entities' =
                     [entities EXCEPT ![CollectionName(worker[j].bucket)] =
                         NewCollection(worker[j].embedding_dim)]
               /\ Goto(j, "process", Progress("collection_created", j))
       \/ /\ Goto(j, "run_except", NoEm)
          /\ UNCHANGED vectorVars
    /\ VectorFrame

\* setup_collection lines 152-154: drop_collection and Collection(name, schema)
WDrop(j) ==
    /\ AtPc(j, "drop")
    /\ \/ /\ collections' =
                collections \cup {CollectionName(worker[j].bucket)}
          /\ entities' =
                [entities EXCEPT ![CollectionName(worker[j].bucket)] =
                    NewCollection(worker[j].embedding_dim)]
          /\ Goto(j, "process", Progress("collection_created", j))
       \/ /\ Goto(j, "run_except", NoEm)
          /\ UNCHANGED vectorVars
    /\ VectorFrame

\* process_files_incremental lines 314-321
WProcess(j) ==
    /\ AtPc(j, "process")
    /\ Goto(j, "file_loop", Progress("started", j))
    /\ WorkerFrame

\* the check `if self.should_stop` at a file or chunk boundary
StopRequested(j) == should_stop[j]

\* process_files_incremental lines 323-325 and _process_single_file line
\* 203: the file boundary
WFileLoop(j) ==
    /\ AtPc(j, "file_loop")
    /\ IF StopRequested(j) \/ worker[j].file_idx = Len(worker[j].files)
       THEN Goto(j, "after_process", NoEm)
       ELSE worker' = [worker EXCEPT ![j].pc = "extract",
                                     ![j].file_idx = @ + 1,
                                     ![j].chunk_idx = 0,
                                     ![j].em = Progress("file_started", j)]
    /\ WorkerFrame

\* _process_single_file lines 211-273: text extraction; a failure is
\* reported as file_error and the file contributes nothing
WExtract(j) ==
    /\ AtPc(j, "extract")
    /\ \/ Goto(j, "chunk_loop", NoEm)
       \/ Goto(j, "file_done", Error("file_error", j))
    /\ WorkerFrame

\* _process_single_file lines 275-278: the chunk boundary; past it the
\* embedding call is in flight
WChunkLoop(j) ==
    /\ AtPc(j, "chunk_loop")
    /\ IF StopRequested(j)
          \/ worker[j].chunk_idx = ChunksOf(worker[j].files[worker[j].file_idx])
       THEN Goto(j, "file_done", NoEm)
       ELSE Goto(j, "embedding", NoEm)
    /\ WorkerFrame

\* one row of the insert: (filename, chunk_index, text, embedding); the text
\* and its embedding are those of the downloaded revision of the file
Entity(f, chunk, rev) == [filename |-> f, chunk |-> chunk, revision |-> rev[f]]

\* _process_single_file lines 278-283 and 297-299: the embedding call
\* returns and the chunk is appended, or raises and the file is given up
WEmbedding(j) ==
    /\ AtPc(j, "embedding")
    /\ \/ worker' = [worker EXCEPT
             ![j].pc = "chunk_loop",
             ![j].chunk_idx = @ + 1,
             ![j].data = Append(@, Entity(worker[j].files[worker[j].file_idx],
                                          worker[j].chunk_idx + 1,
                                          worker[j].revision))]
       \/ Goto(j, "file_done", Error("file_error", j))
    /\ WorkerFrame

\* process_files_incremental lines 336-348
WFileDone(j) ==
    /\ AtPc(j, "file_done")
    /\ worker' = [worker EXCEPT ![j].pc = "file_loop",
                                ![j].files_processed = @ + 1,
                                ![j].em = Progress("file_completed", j)]
    /\ WorkerFrame

\* run() lines 391-395 and 429-430
WAfterProcess(j) ==
    /\ AtPc(j, "after_process")
    /\ IF StopRequested(j)
       THEN Goto(j, "finally", NoEm)
       ELSE IF worker[j].data # <<>>
            THEN Goto(j, "insert", Progress("inserting_data", j))
            ELSE Goto(j, "finally",
                      Call("progress", "complete", j, worker[j].total_files,
                           worker[j].embedding_dim))
    /\ WorkerFrame

\* the set of the elements of a sequence
Range(s) == {s[i] : i \in 1..Len(s)}

\* the vector store takes the rows of an insert when the length of their
\* embeddings, that of the vectors the model returns, is the dimension of the
\* collection's embedding field
InsertAccepted(c) == c \in collections /\ entities[c].dim = ProbedDim

\* run() lines 396-400: collection.insert, which may raise
WInsert(j) ==
    /\ AtPc(j, "insert")
    /\ \/ /\ InsertAccepted(CollectionName(worker[j].bucket))
          /\ entities' =
                [entities EXCEPT ![CollectionName(worker[j].bucket)].rows =
                    @ \cup Range(worker[j].data)]
          /\ UNCHANGED collections
          /\ Goto(j, "create_index", Progress("creating_index", j))
       \/ /\ Goto(j, "run_except", NoEm)
          /\ UNCHANGED vectorVars
    /\ VectorFrame

\* run() lines 401-407: create_index and load, which may raise
WCreateIndex(j) ==
    /\ AtPc(j, "create_index")
    /\ \/ Goto(j, "bm25", Progress("indexing_bm25", j))
       \/ Goto(j, "run_except", NoEm)
    /\ WorkerFrame

\* the filenames taken from the other end of the batch
data_filename_reversed(data) ==
    [i \in 1..Len(data) |-> data[Len(data) + 1 - i].filename]

\* my_data[0] and my_data[1]: the texts and the filenames of the chunks of
\* the batch, in the order they were embedded
data_content(data) ==
    [i \in 1..Len(data) |->
        [file |-> data[i].filename, chunk |-> data[i].chunk,
         revision |-> data[i].revision]]
data_filename(data) == [i \in 1..Len(data) |-> data[i].filename]

\* BM25Service.build_index: the service keeps the two lists
build_index(contents, filenames) ==
    [contents |-> contents, filenames |-> filenames]

\* BM25Service.save_to_minio: upload_stream makes sure of the bucket and
\* writes index/bm25.pkl
save_to_minio(m, name, index) ==
    [ensure_bucket(m, name) EXCEPT ![SanitizeBucketName(name)].bm25 = index]

\* a BM25 step whose failure ends the run
WBm25Fatal(j) ==
    /\ AtPc(j, "bm25")
    /\ Goto(j, "run_except", Error("error", j))
    /\ WorkerFrame

\* run() lines 406-416: the BM25 build and save.  A failure of the upload is
\* caught and printed in save_to_minio and the run reports bm25_saved; a
\* failure of the build is reported through the error callback; the run goes
\* on in both cases
WBm25(j) ==
    /\ AtPc(j, "bm25")
    /\ \/ /\ minio' = save_to_minio(minio, worker[j].bucket,
                                     build_index(data_content(worker[j].data),
                                                 data_filename(worker[j].data)))
          /\ Goto(j, "complete", Progress("bm25_saved", j))
       \/ /\ UNCHANGED minio
          /\ Goto(j, "complete", Progress("bm25_saved", j))
       \/ /\ UNCHANGED minio
          /\ Goto(j, "complete", Error("error", j))
    /\ UNCHANGED <<is_running, current_indexer, websocket_clients,
                   progress_queue, last_progress, registryVars, vectorVars,
                   should_stop, loop_em, clock, socketVars, budgetVars,
                   response, chatVars, call>>

\* run() lines 418-428
WComplete(j) ==
    /\ AtPc(j, "complete")
    /\ Goto(j, "finally",
            Call("progress", "complete", j, worker[j].total_files,
                 worker[j].embedding_dim))
    /\ WorkerFrame

\* run() lines 432-434: the except clause of run() reports and re-raises
WRunExcept(j) ==
    /\ AtPc(j, "run_except")
    /\ Goto(j, "except", Error("error", j))
    /\ WorkerFrame

\* run_indexer lines 204-214: the except clause reports the fatal error
WExcept(j) ==
    /\ AtPc(j, "except")
    /\ Goto(j, "finally", Error("error", j))
    /\ WorkerFrame

\* the finally clause without its first statement
WFinallyKeepsRunning(j) ==
    /\ AtPc(j, "finally")
    /\ Goto(j, "clear", NoEm)
    /\ WorkerFrame

\* run_indexer line 216
WFinally(j) ==
    /\ AtPc(j, "finally")
    /\ is_running' = FALSE
    /\ Goto(j, "clear", NoEm)
    /\ UNCHANGED <<current_indexer, websocket_clients, progress_queue,
                   last_progress, registryVars, minio, vectorVars,
                   should_stop, loop_em, clock, socketVars, budgetVars,
                   response,
                   chatVars, call>>

\* run_indexer line 217; the thread ends
WClear(j) ==
    /\ AtPc(j, "clear")
    /\ current_indexer' = 0
    /\ worker' = [worker EXCEPT ![j] = [IdleWorker EXCEPT !.pc = "done"]]
    /\ UNCHANGED <<is_running, websocket_clients, progress_queue,
                   last_progress, registryVars, minio, vectorVars,
                   should_stop, loop_em, clock, socketVars, budgetVars,
                   response,
                   chatVars, call>>

\* the statements every job runs
WorkerCommon(j) ==
    \/ WorkerEmit(j)
    \/ WStart(j)
    \/ WDownload(j)
    \/ WInit(j)
    \/ WConnect(j)
    \/ WCounting(j)
    \/ WCount(j)
    \/ WCounted(j)
    \/ WExcept(j)
    \/ WFinally(j)
    \/ WClear(j)

\* the statements of a job that found files to process
WorkerPipeline(j) ==
    \/ WSetup(j)
    \/ WProbe(j)
    \/ WHasCollection(j)
    \/ WDrop(j)
    \/ WProcess(j)
    \/ WFileLoop(j)
    \/ WExtract(j)
    \/ WChunkLoop(j)
    \/ WEmbedding(j)
    \/ WFileDone(j)
    \/ WAfterProcess(j)
    \/ WInsert(j)
    \/ WCreateIndex(j)
    \/ WBm25(j)
    \/ WComplete(j)
    \/ WRunExcept(j)

WorkerNext(j) == WorkerCommon(j) \/ WorkerPipeline(j)

\* ------------------------------------------------------------------ system

\* The process after startup: two Spaces loaded from the object store, the
\* first one selected (_load_buckets line 70), no job, no client; the
\* broadcaster task waits on the empty queue.
\* uploads/ of the two Spaces at startup
DocumentUploads ==
    [n \in SpaceNames |->
        IF n = SpaceA THEN {"notes.md", "guide.txt", "logo.png"} ELSE {}]

\* uploads/ at startup when no uploaded file has a supported extension
ImageUploads == [n \in SpaceNames |-> IF n = SpaceA THEN {"logo.png"} ELSE {}]

InitialDim(name) == IF name = SpaceA THEN 0 ELSE DefaultEmbeddingDim

InitialMinio(uploads) ==
    [k \in StorageKeys |->
        LET n == CHOOSE n \in SpaceNames : SanitizeBucketName(n) = k IN
        [exists |-> TRUE,
         config_json |-> [present |-> TRUE, name |-> n,
                          embedding_dim |-> InitialDim(n), file_count |-> 0,
                          last_indexed |-> 0],
         progress_state |-> NoEvent,
         progress_bucket_name |-> NoName,
         uploads |-> uploads[n],
         revision |-> [f \in Files |-> IF f \in uploads[n] THEN 1 ELSE 0],
         chats |-> NoChats,
         bm25 |-> NoIndex]]

\* the vector store when an earlier process created the collection of the
\* first Space and inserted nothing
EarlierEntities ==
    [NoEntities EXCEPT ![CollectionName(SpaceA)] = NewCollection(ProbedDim)]

\* no helper function is being called
NoCall == [fn |-> "none"]

Constructed(uploads) ==
    /\ is_running = FALSE
    /\ current_indexer = 0
    /\ websocket_clients = <<>>
    /\ progress_queue = <<>>
    /\ last_progress = NoEvent
    /\ minio = InitialMinio(uploads)
    /\ buckets = _load_buckets(InitialMinio(uploads))
    /\ current_bucket_name =
          LoadedCurrent(_load_buckets(InitialMinio(uploads)), NoName)
    /\ should_stop = [j \in Jobs |-> FALSE]
    /\ worker = [j \in Jobs |-> IdleWorker]
    /\ loop_em = NoEm
    /\ clock = 0
    /\ snapshot_tasks = {}
    /\ send_tasks = {}
    /\ send_event = NoEvent
    /\ ws_state = [w \in Subs |-> "new"]
    /\ joined = [w \in Subs |-> NotJoined]
    /\ received = [w \in Subs |-> <<>>]
    /\ jobs_started = 0
    /\ stops_issued = 0
    /\ selects_issued = 0
    /\ deletes_issued = 0
    /\ response = NoResponse
    /\ current_session_id = [n \in SpaceNames |-> 0]
    /\ new_session_id = [n \in SpaceNames |-> 0]
    /\ saver = IdleSaver

InitWith(uploads) ==
    /\ Constructed(uploads)
    /\ call = NoCall

\* The control plane: start requests and the worker threads, on a Space with
\* documents to index.  No stop request is made, no websocket client is
\* connected and the broadcaster, which touches only the queue and the
\* sockets, is left out: the queue keeps every event put.
Init ==
    /\ InitWith(DocumentUploads)
    /\ collections = {}
    /\ entities = NoEntities

Next ==
    \/ StartAlreadyRunning
    \/ StartAccepted(MaxJobs)
    \/ \E j \in Jobs : WorkerNext(j)

Spec == Init /\ [][Next]_vars

\* Stop requests against one job.
StopInit ==
    /\ InitWith(DocumentUploads)
    /\ collections = {CollectionName(SpaceA)}
    /\ entities = EarlierEntities

StopNext ==
    \/ StartAccepted(SingleJob)
    \/ stop_indexing
    \/ LoopEmit
    \/ \E j \in Jobs : WorkerNext(j)

StopSpec == StopInit /\ [][StopNext]_vars

\* The threads are scheduled: a worker thread that can run its next
\* statement eventually runs it, and every call it makes returns or raises.
FairStopSpec == StopSpec /\ \A j \in Jobs : WF_vars(WorkerNext(j))

\* The registry under a running job: select and delete requests while one
\* job indexes the selected Space.
RegistryInit ==
    /\ InitWith(DocumentUploads)
    /\ collections = {CollectionName(SpaceA)}
    /\ entities = EarlierEntities

RegistryNext ==
    \/ start_indexing(SingleJob)
    \/ select_bucket
    \/ delete_bucket
    \/ \E j \in Jobs : WorkerNext(j)

RegistrySpec == RegistryInit /\ [][RegistryNext]_vars

\* The progress fan-out: websocket clients, the broadcaster and one job on a
\* Space whose uploads hold no supported file, which reports `complete`
\* right after counting.
FanInit ==
    /\ InitWith(ImageUploads)
    /\ collections = {}
    /\ entities = NoEntities

FanNext ==
    \/ StartAccepted(SingleJob)
    \/ \E ws \in Subs : add_websocket(ws)
    \/ \E ws \in Subs : websocket_disconnect(ws)
    \/ SnapshotSend
    \/ BroadcastGet
    \/ BroadcastSend
    \/ \E j \in Jobs : WorkerCommon(j)

FanSpec == FanInit /\ [][FanNext]_vars

\* Re-indexing: between two jobs on the first Space its files are uploaded
\* again or removed and its config is replaced.
ReindexInit ==
    /\ InitWith(DocumentUploads)
    /\ collections = {}
    /\ entities = NoEntities

\* no job has been started that has not ended
BetweenJobs == ~is_running /\ \A j \in Jobs : worker[j].pc \in {"idle", "done"}

\* the requests that edit the Space are made between the jobs
ReindexNext ==
    \/ StartAccepted(MaxJobs)
    \/ BetweenJobs /\ \E f \in Files : upload_files(SpaceA, f)
    \/ BetweenJobs /\ \E f \in Files : remove_directories(SpaceA, f)
    \/ BetweenJobs /\ update_bucket_config(SpaceA, DefaultEmbeddingDim)
    \/ \E j \in Jobs : WorkerNext(j)

ReindexSpec == ReindexInit /\ [][ReindexNext]_vars

\* The chat sessions of the first Space: clear, append and load requests.
ChatInit ==
    /\ InitWith(DocumentUploads)
    /\ collections = {}
    /\ entities = NoEntities

ChatNext ==
    \/ clear_history(SpaceA)
    \/ \E msg \in Messages : save_message(SpaceA, msg)
    \/ \E id \in Sessions : load_session(SpaceA, id)

ChatSpec == ChatInit /\ [][ChatNext]_vars

\* The chat sessions of the first Space with the thread that saves the
\* answers and another client of the object store.
AnswerNext ==
    \/ create_new_session(minio, SpaceA) <= AnswerSessions
          /\ clear_history(SpaceA)
    \/ save_message(SpaceA, "question")
    \/ \E id \in 1..AnswerSessions : load_session(SpaceA, id)
    \/ SaverStart(SpaceA, "answer")
    \/ SaverNext
    \/ \E id \in 1..AnswerSessions : ExternalSession(SpaceA, id)

AnswerSpec == ChatInit /\ [][AnswerNext]_vars

\* The registry routes alone: create, update of the config, select and
\* delete requests; the first Space has a collection in the vector store.
SpaceInit ==
    /\ InitWith(DocumentUploads)
    /\ collections = {CollectionName(SpaceA)}
    /\ entities = EarlierEntities

SpaceNext ==
    \/ create_bucket
    \/ \E name \in RequestNames, dim \in {DefaultEmbeddingDim, ProbedDim} :
          update_bucket_config(name, dim)
    \/ select_bucket
    \/ delete_bucket

SpaceSpec == SpaceInit /\ [][SpaceNext]_vars
\* ------------------------------------------------------------------ helpers

\* every other variable is left alone by a helper function
HelperFrame ==
    UNCHANGED <<managerVars, registryVars, minio, vectorVars, should_stop,
                worker, loop_em, clock, socketVars, budgetVars, response,
                chatVars>>

Min(a, b) == IF a < b THEN a ELSE b
Max(a, b) == IF a > b THEN a ELSE b

\* the strings over an alphabet, up to a length
Strings(alphabet, n) == UNION {[1..k -> alphabet] : k \in 0..n}

\* a slice that stops one short of its end index
SliceOneShort(s, i, j) == SubSeq(s, i + 1, Min(j, Len(s)) - 1)

\* s[i:j] of Python for 0 <= i <= j: the slice stops at the end of s
Slice(s, i, j) == SubSeq(s, i + 1, Min(j, Len(s)))

\* str.strip() returns the empty string: only whitespace, or nothing
IsBlank(text) == \A i \in 1..Len(text) : text[i] = " "

\* range(0, n, step) for step >= 1
RangeFrom0(n, step) == {i \in 0..(n - 1) : i % step = 0}

\* [text[i:i+chunk_size] for i in range(0, len(text), chunk_size)]
chunks(text, chunk_size) ==
    [k \in 1..Cardinality(RangeFrom0(Len(text), chunk_size)) |->
        Slice(text, (k - 1) * chunk_size, (k - 1) * chunk_size + chunk_size)]

\* the chunks _process_single_file produces from the text it extracted, when
\* no stop is requested: none when the text is blank
ProducedChunks(text, chunk_size) ==
    IF IsBlank(text) THEN <<>> ELSE chunks(text, chunk_size)

\* the characters of an extracted text
TextChars == {"a", " "}

ChunkInit ==
    /\ Constructed(DocumentUploads)
    /\ collections = {}
    /\ entities = NoEntities
    /\ \E text \in Strings(TextChars, MaxText), chunk_size \in 1..MaxChunk :
          call = [fn |-> "chunk", text |-> text, chunk_size |-> chunk_size,
                  done |-> FALSE, result |-> <<>>]

ChunkText ==
    /\ call.fn = "chunk"
    /\ ~call.done
    /\ call' = [call EXCEPT !.done = TRUE,
                            !.result = ProducedChunks(call.text, call.chunk_size)]
    /\ HelperFrame

ChunkNext == ChunkText

ChunkSpec == ChunkInit /\ [][ChunkNext]_vars

\* A retrieved document: its filename and its content, the content in two
\* parts, the first 50 characters (head) and the rest (tail).
Filenames == {"f", "g", "h"}
Heads == {"p"}
Tails == {"s", "t"}
Docs == [filename : Filenames, head : Heads, tail : Tails]

\* the result lists one retrieval method may return
ResultLists == UNION {[1..n -> Docs] : n \in 0..MaxResults}

\* the parameter k of reciprocal_rank_fusion
RRF_K == 60

\* Scores are kept exact: a score is the number of 1/ScoreScale units in it,
\* ScoreScale being the product of (rank + k) over the ranks a list has.
RECURSIVE RankProduct(_)
RankProduct(n) == IF n = 0 THEN 1 ELSE (n - 1 + RRF_K) * RankProduct(n - 1)
ScoreScale == RankProduct(MaxResults)

\* 1 / (rank + k)
RankScore(rank) == ScoreScale \div (rank + RRF_K)

\* f"{doc['filename']}_{hash(doc['content'][:50])}"
DocKey(doc) == <<doc.filename, doc.head>>

\* the position of a key in fused_scores (a dict keeps insertion order),
\* 0 when it has none
KeyIndex(fused_scores, key) ==
    IF \E i \in 1..Len(fused_scores) : fused_scores[i].key = key
    THEN CHOOSE i \in 1..Len(fused_scores) : fused_scores[i].key = key
    ELSE 0

\* the body of the inner loop: the first document of a key makes its entry,
\* every occurrence adds 1 / (rank + k)
AddScore(fused_scores, doc, rank) ==
    LET i == KeyIndex(fused_scores, DocKey(doc))
        entered == IF i = 0
                   THEN Append(fused_scores,
                               [key |-> DocKey(doc), doc |-> doc, score |-> 0])
                   ELSE fused_scores
        j == IF i = 0 THEN Len(entered) ELSE i
    IN  [entered EXCEPT ![j].score = @ + RankScore(rank)]

\* for rank, doc in enumerate(results), from a rank on
RECURSIVE FuseResults(_, _, _)
FuseResults(fused_scores, results, rank) ==
    IF rank >= Len(results)
    THEN fused_scores
    ELSE FuseResults(AddScore(fused_scores, results[rank + 1], rank),
                     results, rank + 1)

\* for results in results_list
RECURSIVE FuseLists(_, _)
FuseLists(fused_scores, results_list) ==
    IF results_list = <<>>
    THEN fused_scores
    ELSE FuseLists(FuseResults(fused_scores, Head(results_list), 0),
                   Tail(results_list))

\* a sort that puts entries of equal score in the opposite order
UnstablePosition(entries, i) ==
    1 + Cardinality({j \in 1..Len(entries) :
                        \/ entries[j].score > entries[i].score
                        \/ entries[j].score = entries[i].score /\ j > i})

\* where sorted(..., key=score, reverse=True) puts entry i: the sort is
\* stable, so entries of equal score keep their order
SortedPosition(entries, i) ==
    1 + Cardinality({j \in 1..Len(entries) :
                        \/ entries[j].score > entries[i].score
                        \/ entries[j].score = entries[i].score /\ j < i})

SortedByScore(entries) ==
    [p \in 1..Len(entries) |->
        entries[CHOOSE i \in 1..Len(entries) : SortedPosition(entries, i) = p]]

\* final_results of reciprocal_rank_fusion
final_results(results_list) == SortedByScore(FuseLists(<<>>, results_list))

reciprocal_rank_fusion(results_list) ==
    [p \in 1..Len(final_results(results_list)) |->
        final_results(results_list)[p].doc]

\* One call of reciprocal_rank_fusion with one or two result lists.
FuseInit ==
    /\ Constructed(DocumentUploads)
    /\ collections = {}
    /\ entities = NoEntities
    /\ \E n \in 1..2 : \E results_list \in [1..n -> ResultLists] :
          call = [fn |-> "fuse", results_list |-> results_list,
                  done |-> FALSE, final_results |-> <<>>, result |-> <<>>]

Fuse ==
    /\ call.fn = "fuse"
    /\ ~call.done
    /\ call' = [call EXCEPT
          !.done = TRUE,
          !.final_results = final_results(call.results_list),
          !.result = reciprocal_rank_fusion(call.results_list)]
    /\ HelperFrame

FuseNext == Fuse

FuseSpec == FuseInit /\ [][FuseNext]_vars

\* A candidate of the reranker: its content in three parts, the first 50
\* characters (head), characters 51 to 100 (tail) and the rest.
Candidates == [filename : Filenames, head : Heads, tail : Tails,
               rest : {"u", "v"}]

\* the fused lists handed on: every key once
CandidateLists ==
    {c \in UNION {[1..n -> Candidates] : n \in 0..MaxCandidates} :
        \A i, j \in 1..Len(c) : i # j => DocKey(c[i]) # DocKey(c[j])}

\* what the cross-encoder does in one call
Outcomes == {"unavailable", "raises", "scored"}

\* the scores model.predict may return, one per pair
Scores == [1..MaxCandidates -> {1, 2}]

\* a signature that tells every candidate apart
WholeDoc(doc) == doc

\* doc.get('content', '')[:100]
Signature(doc) == <<doc.head, doc.tail>>

\* the deduplication loop: the first document of each signature is kept
RECURSIVE unique_docs(_, _)
unique_docs(documents, seen) ==
    IF documents = <<>> THEN <<>>
    ELSE IF Signature(Head(documents)) \in seen
         THEN unique_docs(Tail(documents), seen)
         ELSE <<Head(documents)>> \o
              unique_docs(Tail(documents),
                          seen \cup {Signature(Head(documents))})

\* rerank_documents: the documents with their rerank_score, or the
\* documents as they came when there is no model or scoring raised
rerank_documents(documents, top_k, outcome, scores) ==
    IF documents = <<>> THEN <<>>
    ELSE IF outcome # "scored" THEN Slice(documents, 0, top_k)
    ELSE LET docs_to_rank == unique_docs(documents, {})
             scored == [i \in 1..Len(docs_to_rank) |->
                           [doc |-> docs_to_rank[i], score |-> scores[i]]]
             sorted_docs == SortedByScore(scored)
         IN  Slice([p \in 1..Len(sorted_docs) |-> sorted_docs[p].doc],
                   0, top_k)

\* the candidates retrieve_context hands to the reranker
RerankedCandidates == 50

\* step D of retrieve_context
final_chunks(candidates, top_k, enable_reranking, outcome, scores) ==
    IF enable_reranking
    THEN rerank_documents(Slice(candidates, 0, RerankedCandidates), top_k,
                          outcome, scores)
    ELSE Slice(candidates, 0, top_k)

\* One retrieval from the fused candidates on.
RerankInit ==
    /\ Constructed(DocumentUploads)
    /\ collections = {}
    /\ entities = NoEntities
    /\ \E candidates \in CandidateLists, top_k \in 1..MaxTopK,
          enable_reranking \in BOOLEAN, outcome \in Outcomes,
          scores \in Scores :
          /\ ~enable_reranking => outcome = "unavailable"
          /\ outcome # "scored" => scores = [i \in 1..MaxCandidates |-> 1]
          /\ call = [fn |-> "rerank", candidates |-> candidates,
                     top_k |-> top_k, enable_reranking |-> enable_reranking,
                     outcome |-> outcome, scores |-> scores,
                     done |-> FALSE, result |-> <<>>]

Rerank ==
    /\ call.fn = "rerank"
    /\ ~call.done
    /\ call' = [call EXCEPT
          !.done = TRUE,
          !.result = final_chunks(call.candidates, call.top_k,
                                  call.enable_reranking, call.outcome,
                                  call.scores)]
    /\ HelperFrame

RerankNext == Rerank

RerankSpec == RerankInit /\ [][RerankNext]_vars

\* the elements of s at the positions idx, in order
AtPositions(s, idx) ==
    [p \in 1..Cardinality(idx) |->
        s[CHOOSE i \in idx : Cardinality({j \in idx : j <= i}) = p]]

\* re.sub(c + '+', c, s): runs of one character become one
Collapse(s, c) ==
    AtPositions(s, {i \in 1..Len(s) : ~(s[i] = c /\ i > 1 /\ s[i - 1] = c)})

RECURSIVE LStripOf(_, _)
\* str.lstrip(chars)
LStripOf(s, chars) ==
    IF s # <<>> /\ Head(s) \in chars THEN LStripOf(Tail(s), chars) ELSE s

RECURSIVE RStripOf(_, _)
\* str.rstrip(chars)
RStripOf(s, chars) ==
    IF s # <<>> /\ s[Len(s)] \in chars
    THEN RStripOf(SubSeq(s, 1, Len(s) - 1), chars)
    ELSE s

\* the shortest and the longest bucket name MinIO takes
MinBucketLen == 3
MaxBucketLen == 63

\* utils.sanitizers.sanitize_bucket_name
sanitize_bucket_name(bucket_name) ==
    LET lowered == [i \in 1..Len(bucket_name) |-> ToLower(bucket_name[i])]
        replaced == [i \in 1..Len(lowered) |->
                        IF lowered[i] \in Lower \cup Digits \cup {".", "-"}
                        THEN lowered[i] ELSE "-"]
        stripped == RStripOf(LStripOf(Collapse(replaced, "-"), {"-", "."}),
                             {"-", "."})
        padded == IF Len(stripped) < MinBucketLen
                  THEN stripped \o <<"-", "b", "u", "c", "k", "e", "t">>
                  ELSE stripped
    IN  IF Len(padded) > MaxBucketLen
        THEN RStripOf(Slice(padded, 0, MaxBucketLen), {"-", "."})
        ELSE padded

\* utils.sanitizers.sanitize_collection_name
sanitize_collection_name(collection_name) ==
    LET replaced == [i \in 1..Len(collection_name) |->
                        IF IsAlnum(collection_name[i])
                           \/ collection_name[i] = "_"
                        THEN collection_name[i] ELSE "_"]
        prefixed == IF replaced # <<>> /\ replaced[1] \in Digits
                    THEN <<"_">> \o replaced ELSE replaced
        collapsed == Collapse(prefixed, "_")
    IN  IF collapsed = <<>>
        THEN <<"_", "d", "e", "f", "a", "u", "l", "t">>
        ELSE collapsed

\* str.split(sep)
RECURSIVE Split(_, _)
Split(s, sep) ==
    IF \E i \in 1..Len(s) : s[i] = sep
    THEN LET i == CHOOSE i \in 1..Len(s) :
                     s[i] = sep /\ \A j \in 1..(i - 1) : s[j] # sep
         IN  <<SubSeq(s, 1, i - 1)>> \o Split(SubSeq(s, i + 1, Len(s)), sep)
    ELSE <<s>>

\* sep.join(parts)
RECURSIVE Join(_, _)
Join(parts, sep) ==
    IF parts = <<>> THEN <<>>
    ELSE IF Len(parts) = 1 THEN parts[1]
    ELSE parts[1] \o <<sep>> \o Join(Tail(parts), sep)

\* Path(filename).parts on POSIX: the root, when the path has one ("//" for
\* exactly two leading slashes), then the components that are neither empty
\* nor "."
PathParts(filename) ==
    LET leading == Len(filename) - Len(LStripOf(filename, {"/"}))
        root == IF leading = 0 THEN <<>>
                ELSE IF leading = 2 THEN <<<<"/", "/">>>>
                ELSE <<<<"/">>>>
    IN  root \o SelectSeq(Split(filename, "/"),
                          LAMBDA part : part # <<>> /\ part # <<".">>)

\* the filter of sanitize_filename: no "", ".", "..", no part holding a
\* colon, no part that starts with a slash or a backslash
IsSafePart(part) ==
    /\ part \notin {<<>>, <<".">>, <<".", ".">>}
    /\ \A i \in 1..Len(part) : part[i] # ":"
    /\ Head(part) \notin {"/", "\\"}

\* utils.sanitizers.sanitize_filename: the sanitized name, or raised
sanitize_filename(filename) ==
    LET no_nul == SelectSeq(filename, LAMBDA c : c # "NUL")
        safe_parts == SelectSeq(PathParts(no_nul), IsSafePart)
    IN  IF filename = <<>> \/ safe_parts = <<>>
        THEN [raised |-> TRUE, value |-> <<>>]
        ELSE [raised |-> FALSE,
              value |-> LStripOf(Join(safe_parts, "/"), {"/"})]

\* the characters of the names handed to the sanitizers
BucketChars == {"A", "a", "1", "-", ".", " "}
CollectionChars == {"A", "a", "1", "_", "-"}
FilenameChars == {"a", ".", "/", ":", "\\", "NUL"}

\* One call of a sanitizer.
SanitizeInit ==
    /\ Constructed(DocumentUploads)
    /\ collections = {}
    /\ entities = NoEntities
    /\ \/ \E name \in Strings(BucketChars, MaxName) :
             \E fn \in {"sanitize_bucket_name", "_sanitize_bucket_name"} :
                call = [fn |-> fn, name |-> name, done |-> FALSE,
                        raised |-> FALSE, result |-> <<>>]
       \/ \E name \in Strings(CollectionChars, MaxName) :
             call = [fn |-> "sanitize_collection_name", name |-> name,
                     done |-> FALSE, raised |-> FALSE, result |-> <<>>]
       \/ \E name \in Strings(FilenameChars, MaxName) :
             call = [fn |-> "sanitize_filename", name |-> name,
                     done |-> FALSE, raised |-> FALSE, result |-> <<>>]

Returns(value) == call' = [call EXCEPT !.done = TRUE, !.result = value]

SanitizeBucket ==
    /\ call.fn = "sanitize_bucket_name"
    /\ ~call.done
    /\ Returns(sanitize_bucket_name(call.name))
    /\ HelperFrame

SanitizeStorageKey ==
    /\ call.fn = "_sanitize_bucket_name"
    /\ ~call.done
    /\ Returns(SanitizeBucketName(call.name))
    /\ HelperFrame

SanitizeCollection ==
    /\ call.fn = "sanitize_collection_name"
    /\ ~call.done
    /\ Returns(sanitize_collection_name(call.name))
    /\ HelperFrame

SanitizeFilename ==
    /\ call.fn = "sanitize_filename"
    /\ ~call.done
    /\ call' = [call EXCEPT
          !.done = TRUE,
          !.raised = sanitize_filename(call.name).raised,
          !.result = sanitize_filename(call.name).value]
    /\ HelperFrame

SanitizeNext ==
    \/ SanitizeBucket
    \/ SanitizeStorageKey
    \/ SanitizeCollection
    \/ SanitizeFilename

SanitizeSpec == SanitizeInit /\ [][SanitizeNext]_vars

\* A URL as urlparse sees it: the scheme as written, the host and the port.
\* A host is a name or an IP address; an address carries what the ipaddress
\* module says of it.
Schemes == {"http", "https", "HTTP", "ftp"}

HostName(name) == [kind |-> "name", name |-> name]
Address(ip, private, loopback, link_local, reserved, multicast) ==
    [kind |-> "ip", name |-> ip, is_private |-> private,
     is_loopback |-> loopback, is_link_local |-> link_local,
     is_reserved |-> reserved, is_multicast |-> multicast]

Hosts ==
    {HostName("none"), HostName("example.com"), HostName("localhost"),
     HostName("my-localhost.example.com"),
     Address("8.8.8.8", FALSE, FALSE, FALSE, FALSE, FALSE),
     Address("10.0.0.1", TRUE, FALSE, FALSE, FALSE, FALSE),
     Address("127.0.0.1", TRUE, TRUE, FALSE, FALSE, FALSE),
     Address("169.254.1.1", TRUE, FALSE, TRUE, FALSE, FALSE),
     Address("240.0.0.1", TRUE, FALSE, FALSE, TRUE, FALSE),
     Address("224.0.0.1", FALSE, FALSE, FALSE, FALSE, TRUE)}

\* the largest port number and the ports validate_url calls dangerous
MaxPort == 65535
DangerousPorts == {22, 23, 25, 3389}

\* the ports a URL may name, and no port
PortNumbers == {0, 1, 22, 23, 25, 80, 3389, MaxPort, MaxPort + 1}
Ports == [given : {TRUE}, number : PortNumbers] \cup
         {[given |-> FALSE, number |-> 0]}

Urls == [scheme : Schemes, host : Hosts, port : Ports]

\* the names validate_url takes for the local host
LocalhostNames == {"localhost", "localhost.localdomain", "localhost6",
                   "localhost6.localdomain6"}
\* 'localhost' in hostname_lower
ContainsLocalhost(name) == name \in {"localhost", "my-localhost.example.com"}

Accepted == [valid |-> TRUE, message |-> "none"]
Rejected(message) == [valid |-> FALSE, message |-> message]

\* the port check of validate_url: a port that is 0 or absent is falsy and
\* skips it
PortCheck(port) ==
    IF port.given /\ port.number # 0
    THEN IF port.number < 1 \/ port.number > MaxPort
         THEN Rejected("Invalid port number")
         ELSE IF port.number \in DangerousPorts
              THEN Rejected("Port is not allowed")
              ELSE Accepted
    ELSE Accepted

\* utils.validators.validate_url(url, allow_private=False); parsed.port
\* raises for a number above 65535 and the handler at the end rejects
validate_url(url) ==
    IF url.scheme \notin {"http", "https", "HTTP"}
    THEN Rejected("URL must start with http:// or https://")
    ELSE IF url.host = HostName("none")
    THEN Rejected("Invalid URL format - missing hostname")
    ELSE IF url.host.name \in LocalhostNames
    THEN Rejected("Cannot access localhost addresses")
    ELSE IF url.host.kind = "ip" /\ url.host.is_private
    THEN Rejected("Cannot access private IP addresses")
    ELSE IF url.host.kind = "ip" /\ url.host.is_loopback
    THEN Rejected("Cannot access loopback addresses")
    ELSE IF url.host.kind = "ip" /\ url.host.is_link_local
    THEN Rejected("Cannot access link-local addresses")
    ELSE IF url.host.kind = "ip" /\ url.host.is_reserved
    THEN Rejected("Cannot access reserved IP addresses")
    ELSE IF url.host.kind = "ip" /\ url.host.is_multicast
    THEN Rejected("Cannot access multicast addresses")
    ELSE IF url.host.kind = "name" /\ ContainsLocalhost(url.host.name)
    THEN Rejected("Cannot access localhost-like addresses")
    ELSE IF url.port.given /\ url.port.number > MaxPort
    THEN Rejected("Invalid URL")
    ELSE PortCheck(url.port)

\* One call of the URL admission check.
UrlInit ==
    /\ Constructed(DocumentUploads)
    /\ collections = {}
    /\ entities = NoEntities
    /\ \E url \in Urls :
          call = [fn |-> "validate_url", url |-> url, done |-> FALSE,
                  result |-> Accepted]

ValidateUrl ==
    /\ call.fn = "validate_url"
    /\ ~call.done
    /\ call' = [call EXCEPT !.done = TRUE, !.result = validate_url(call.url)]
    /\ HelperFrame

UrlNext == ValidateUrl

UrlSpec == UrlInit /\ [][UrlNext]_vars

\* ------------------------------------------------------- upload directories

\* The files of a Space under uploads/, as the job finds them in its cache
\* directory: the directory and the name of the file, and what os.stat
\* returns for it.
Dirs == {"a", "b"}
Basenames == {"readme.md", "notes.md"}
Stats == [size : 1..MaxStat, mtime : 1..MaxStat]
CachedFiles == [dir : Dirs, base : Basenames, stat : Stats]

\* os.path.basename
basename(file) == file.base

\* the walks of the cache directory: no path twice
Walks ==
    {w \in UNION {[1..n -> CachedFiles] : n \in 1..MaxWalk} :
        \A i, k \in 1..Len(w) :
            (w[i].dir = w[k].dir /\ w[i].base = w[k].base) => i = k}

\* the indexed_files_metadata IndexingManager hands to the indexer: none
NoMetadata == <<>>

\* d[k] = v of a dict
SetItem(d, k, v) ==
    [x \in DOMAIN d \cup {k} |-> IF x = k THEN v ELSE d[x]]

\* delete_file_from_collection: the rows whose filename is the given one
delete_file_from_collection(rows, filename) ==
    SelectSeq(rows, LAMBDA r : r.filename # filename)

\* the state of the indexer between two files
NoFilesProcessed(rows) ==
    [rows |-> rows, data |-> <<>>, new_indexed_metadata |-> <<>>]

\* _process_single_file lines 285-291: the fingerprint of the file is stored
\* under its basename
StoredFingerprint(new, file) == SetItem(new, basename(file), file.stat)

\* _process_single_file: the old rows are deleted when the basename is in
\* the metadata, the chunk of the file is appended under its basename and
\* the fingerprint of the file is stored
_process_single_file(meta, st, file) ==
    [rows |-> IF basename(file) \in DOMAIN meta
              THEN delete_file_from_collection(st.rows, basename(file))
              ELSE st.rows,
     data |-> Append(st.data, [filename |-> basename(file),
                               content |-> <<file.dir, file.base>>]),
     new_indexed_metadata |->
         StoredFingerprint(st.new_indexed_metadata, file)]

\* process_files_incremental: the files in the order of the walk
RECURSIVE process_files_incremental(_, _, _)
process_files_incremental(meta, st, files) ==
    IF files = <<>>
    THEN st
    ELSE process_files_incremental(meta,
                                   _process_single_file(meta, st, Head(files)),
                                   Tail(files))

\* get_final_indexed_metadata: the metadata handed in, updated with the new
get_final_indexed_metadata(meta, new) ==
    [x \in DOMAIN meta \cup DOMAIN new |->
        IF x \in DOMAIN new THEN new[x] ELSE meta[x]]

\* run() on the walk of a Space: every file is processed, the batch is
\* inserted into the collection made anew and the final metadata reported
IndexWalk(files) ==
    LET st == process_files_incremental(NoMetadata, NoFilesProcessed(<<>>),
                                        files)
    IN  [rows |-> st.rows \o st.data,
         indexed_metadata |->
             get_final_indexed_metadata(NoMetadata, st.new_indexed_metadata)]

WalkInit ==
    /\ Constructed(DocumentUploads)
    /\ collections = {}
    /\ entities = NoEntities
    /\ \E files \in Walks :
          call = [fn |-> "walk", files |-> files, done |-> FALSE,
                  result |-> [rows |-> <<>>, indexed_metadata |-> <<>>]]

IndexTheWalk ==
    /\ call.fn = "walk"
    /\ ~call.done
    /\ call' = [call EXCEPT !.done = TRUE, !.result = IndexWalk(call.files)]
    /\ HelperFrame

WalkNext == IndexTheWalk

WalkSpec == WalkInit /\ [][WalkNext]_vars

\* ------------------------------------------------------------------ properties

\* the run_indexer threads that have been started and have not ended
LiveWorkers == {j \in Jobs : worker[j].pc \notin {"idle", "done"}}

\* C1: at most one indexing job runs at any time: every reachable state has
\* at most one live indexing worker, and no step taken while is_running is
\* true starts a worker.
C1_AtMostOneLiveWorker ==
    [][/\ Cardinality(LiveWorkers') <= 1
       /\ (is_running => jobs_started' = jobs_started)]_vars

\* a step of POST /indexing/start, whatever its outcome
StartRequest == start_indexing(MaxJobs)

\* C2: a start request made while a job is running changes none of
\* is_running, the current job, its stop flag, last_progress, the progress
\* queue and the subscriber list.
C2_RejectedStartChangesNothing ==
    [][(is_running /\ StartRequest) =>
          UNCHANGED <<is_running, current_indexer, should_stop, last_progress,
                      progress_queue, websocket_clients>>]_vars

\* C2: a start request has been rejected while a job was past its first
\* events
C2_RejectedWhileRunning ==
    /\ is_running
    /\ current_indexer # 0
    /\ last_progress # NoEvent
    /\ progress_queue # <<>>
    /\ response = Response("start", 400, "already running")

\* the thread of job j is in an except clause: the download or run() raised
FatallyFailed(j) == worker[j].pc \in {"run_except", "except"}

\* an `error` event of job j has been put on the queue
ErrorQueued(j) ==
    \E i \in DOMAIN progress_queue :
        /\ progress_queue[i].type = "error"
        /\ progress_queue[i].job = j

\* C3: every started job ends with is_running false and current_indexer
\* cleared, whether it completes, is stopped or fails; after a fatal
\* failure the error callback has put its `error` event before is_running
\* is reset; and once the job has ended a start request is accepted.
C3_EveryJobEnds ==
    \A j \in Jobs :
        /\ (worker[j].pc = "start") ~>
              (worker[j].pc = "done" /\ ~is_running /\ current_indexer = 0)
        /\ FatallyFailed(j) ~>
              (/\ worker[j].pc = "finally"
               /\ worker[j].em = NoEm
               /\ is_running
               /\ ErrorQueued(j))
        /\ []((worker[j].pc = "done" /\ ~is_running /\ LoopIdle) =>
                 ENABLED StartAccepted(MaxJobs))

\* C3: a job that failed fatally has ended, its error event queued
C3_FailedJobEnded ==
    /\ worker[1].pc = "done"
    /\ ~is_running
    /\ current_indexer = 0
    /\ ErrorQueued(1)
    /\ last_progress.type = "error"

\* the worker of job j passes a file boundary or a chunk boundary: it starts
\* the next file, or the embedding call of the next chunk
StartsFileOrChunk(j) ==
    \/ worker[j].pc = "file_loop" /\ worker'[j].pc = "extract"
    \/ worker[j].pc = "chunk_loop" /\ worker'[j].pc = "embedding"

\* C4: a stop request made while is_running is true, the download phase
\* included, sets the stop flag of the running job's worker; once the flag
\* is set the worker starts no new file and no embedding call beyond the
\* one in flight.
C4_StopSetsTheFlag ==
    [][/\ (is_running /\ stops_issued' # stops_issued) =>
              should_stop'[jobs_started]
       /\ \A j \in Jobs : should_stop[j] => ~StartsFileOrChunk(j)]_vars

\* the client ws connected while a job was running and last_progress was
\* set, and has received its first message
Resynced(ws) ==
    /\ joined[ws].is_running
    /\ joined[ws].last_progress # NoEvent
    /\ received[ws] # <<>>

\* C5: a subscriber that connects while a job is running receives
\* last_progress as its first message, and every message it receives after
\* it is a later event than that snapshot.
C5_SnapshotThenLaterEvents ==
    \A ws \in Subs :
        Resynced(ws) =>
            /\ received[ws][1] = joined[ws].last_progress
            /\ \A i \in 2..Len(received[ws]) :
                   received[ws][i].ts > received[ws][1].ts

\* C6: the events of one job are on the queue in the order they were
\* emitted, the order of their timestamps, whatever the interleaving of
\* the worker thread and the stop request.
C6_EnqueuedInEmissionOrder ==
    \A i, k \in DOMAIN progress_queue :
        (i < k /\ progress_queue[i].job = progress_queue[k].job) =>
            progress_queue[i].ts < progress_queue[k].ts

\* the step in which the `complete` call of job j runs the interception of
\* on_progress
Intercepts(j) ==
    /\ worker[j].em.stage = "called"
    /\ IsComplete(worker[j].em)
    /\ worker'[j].em.stage = "intercepted"

\* the statistics the registry caches for the Space name, if any
CachedStats(bs, name) ==
    LET i == FindBucket(bs, name) IN
    IF i = 0 THEN NoConfig
    ELSE [present |-> TRUE, name |-> name,
          embedding_dim |-> bs[i].embedding_dim,
          file_count |-> bs[i].file_count,
          last_indexed |-> bs[i].last_indexed]

\* config.json of the Space name in the object store
StoredConfig(m, name) == m[SanitizeBucketName(name)].config_json

\* C7: when the job indexing Space S reports `complete`, file_count and
\* embedding_dim are written to the config of S, which is persisted, and
\* the config of no other Space changes, whatever is selected or deleted
\* meanwhile.
C7_CompleteWritesBackToItsSpace ==
    [][\A j \in Jobs :
          Intercepts(j) =>
              /\ \A n \in SpaceNames \ {worker[j].bucket} :
                     /\ CachedStats(buckets', n) = CachedStats(buckets, n)
                     /\ StoredConfig(minio', n) = StoredConfig(minio, n)
              /\ BucketExists(minio, worker[j].bucket) =>
                     /\ StoredConfig(minio', worker[j].bucket).file_count =
                            worker[j].em.files_total
                     /\ worker[j].em.embedding_dim # 0 =>
                            StoredConfig(minio', worker[j].bucket).embedding_dim
                                = worker[j].em.embedding_dim]_vars

\* no thread is inside a progress or error callback
Quiescent == LoopIdle /\ \A j \in Jobs : worker[j].em = NoEm

\* C8: at every quiescent point of a job, progress_state.json in the bucket
\* of the Space being indexed holds the event last_progress holds, `error`
\* events included.
C8_PersistedIsLastProgress ==
    \A j \in Jobs :
        (/\ Quiescent
         /\ worker[j].pc \notin {"idle", "done"}
         /\ last_progress # NoEvent
         /\ BucketExists(minio, worker[j].bucket)) =>
            minio[SanitizeBucketName(worker[j].bucket)].progress_state
                = last_progress

\* a send to the client ws raises: its task ends and the client has
\* received nothing
SendFails(ws) ==
    /\ \/ ws \in send_tasks /\ send_tasks' = send_tasks \ {ws}
       \/ \E t \in snapshot_tasks :
             t[1] = ws /\ snapshot_tasks' = snapshot_tasks \ {t}
    /\ received'[ws] = received[ws]

\* C9: a failed send removes that subscriber and no other; the sends of the
\* same event to the other subscribers stay pending, nothing they received
\* and nothing on the queue is lost, and when the sends are over the
\* broadcaster can take the next event.
C9_SendFailureIsIsolated ==
    /\ [][\A ws \in Subs :
            SendFails(ws) =>
                /\ ws \notin BroadcastTargets(websocket_clients')
                /\ \A o \in Subs \ {ws} :
                       /\ o \in BroadcastTargets(websocket_clients') <=>
                              o \in BroadcastTargets(websocket_clients)
                       /\ o \in send_tasks => o \in send_tasks'
                       /\ received'[o] = received[o]
                /\ progress_queue' = progress_queue]_vars
    /\ []((send_tasks = {} /\ snapshot_tasks = {} /\ progress_queue # <<>>)
             => ENABLED BroadcastGet)

\* C9: the send of an event to client 1 failed, client 2 received that
\* event and is still subscribed
C9_OtherSubscriberServed ==
    /\ ws_state[1] = "failed"
    /\ ws_state[2] = "open"
    /\ 2 \in BroadcastTargets(websocket_clients)
    /\ send_event # NoEvent
    /\ send_tasks = {}
    /\ received[2] # <<>>
    /\ received[2][Len(received[2])] = send_event
    /\ \A i \in DOMAIN received[1] : received[1][i] # send_event

\* C10: the progress queue never holds more events than its capacity.
C10_QueueIsBounded == Len(progress_queue) <= QueueCapacity

\* the Embedder is being called for job j: the probe of setup_collection or
\* the embedding of a chunk
CallsEmbedder(j) == worker[j].pc \in {"probe", "embedding"}

\* job i reported `complete` and no error of any kind: every supported file
\* of its Space was extracted, embedded and inserted
FullyIndexedBy(i) ==
    /\ \E k \in DOMAIN progress_queue :
          progress_queue[k].job = i /\ progress_queue[k].data_type = "complete"
    /\ \A k \in DOMAIN progress_queue :
          progress_queue[k].job = i => progress_queue[k].type # "error"

\* job j runs on the Space job i indexed, and every supported file it
\* downloaded is the revision job i indexed
ReindexesUnchanged(i, j) ==
    /\ i # j
    /\ FullyIndexedBy(i)
    /\ worker[j].pc \notin {"idle", "start", "download", "done"}
    /\ worker[j].bucket = SpaceA
    /\ worker[j].revision = minio[SanitizeBucketName(SpaceA)].revision
    /\ \A f \in Files : worker[j].revision[f] <= 1

\* C11: re-indexing an already indexed Space in which every eligible file is
\* unchanged never calls the Embedder and ends with `complete` and
\* files_processed = 0.
C11_UnchangedReindexEmbedsNothing ==
    \A i, j \in Jobs :
        ReindexesUnchanged(i, j) =>
            /\ ~CallsEmbedder(j)
            /\ worker[j].files_processed = 0

\* the rows the collection of the first Space holds for file f
RowsOf(es, f) == {r \in es[CollectionName(SpaceA)].rows : r.filename = f}

\* the rows of f that were made from an earlier revision than the uploaded one
OldRows(es, m, f) ==
    {r \in RowsOf(es, f) :
        r.revision # m[SanitizeBucketName(SpaceA)].revision[f]}

\* f was indexed and has been uploaded again since
ChangedSinceIndexed(f) ==
    /\ f \in list_objects(minio, SpaceA)
    /\ OldRows(entities, minio, f) # {}

\* job j has just reported `complete`
ReportsComplete(j) ==
    /\ worker[j].pc = "finally"
    /\ IsComplete(worker[j].em)
    /\ worker[j].em.stage = "called"

\* C12: in a reindex, the old chunks of a previously indexed file whose
\* content changed are removed by the deletion that emits `file_deleted`,
\* and when the run reports `complete` the collection holds no chunk of an
\* older revision of a file the run processed.
C12_ChangedFileIsDeletedThenReinserted ==
    /\ [][\A f \in Files :
            (ChangedSinceIndexed(f)
                /\ OldRows(entities, minio, f) \ RowsOf(entities', f) # {})
            => \E j \in Jobs :
                  /\ worker'[j].em.type = "file_deleted"
                  /\ worker[j].em = NoEm]_vars
    /\ [](\A j \in Jobs :
            ReportsComplete(j) =>
                \A f \in Range(worker[j].files) :
                    \A r \in RowsOf(entities, f) :
                        r.revision = worker[j].revision[f])

\* C13: when an index run of a Space has reported `complete`, the collection
\* of the Space holds no chunk of a file that is not among the Space's
\* uploads.
C13_NoChunkOfARemovedFile ==
    \A j \in Jobs :
        ReportsComplete(j) =>
            \A r \in entities[CollectionName(worker[j].bucket)].rows :
                r.filename \in list_objects(minio, worker[j].bucket)

\* job j is past setup_collection
PastSetup(j) ==
    worker[j].pc \in {"process", "file_loop", "extract", "chunk_loop",
                      "embedding", "file_done", "after_process", "insert",
                      "create_index", "bm25", "complete"}

\* C14: when the stored embedding_dim of a Space is not the dimension of the
\* vectors the embedding model returns, the run recreates the collection with
\* the model's dimension and the `complete` it reports carries that dimension
\* to the stored config.
C14_CollectionTakesTheModelDimension ==
    \A j \in Jobs :
        /\ PastSetup(j) =>
              entities[CollectionName(worker[j].bucket)].dim = ProbedDim
        /\ (ReportsComplete(j) /\ worker[j].em.embedding_dim # 0) =>
              worker[j].em.embedding_dim = ProbedDim

\* a clear request of the Space is served and its put_json succeeds
Clears(name) == clear_history(name) /\ BucketExists(minio, name)

\* an append request of the Space is served right after a clear: the session
\* the clear returned is the active one and is still empty
AppendsAfterClear(name, msg) ==
    /\ save_message(name, msg)
    /\ new_session_id[name] # 0
    /\ current_session_id[name] = new_session_id[name]
    /\ SessionHistory(minio, name, new_session_id[name]) = <<>>

\* C20: clear allocates the id max_N + 1, greater than the id of every
\* existing session of the Space and than the id of the previous clear,
\* writes an empty list for it and makes it the active session; the session
\* list then starts with the new id, the other sessions are untouched, and
\* the next append goes to the new session.
C20_ClearOpensANewLatestSession ==
    /\ [][\A name \in SpaceNames :
            Clears(name) =>
                LET id == new_session_id'[name] IN
                /\ id = MaxId(SessionIds(minio, name)) + 1
                /\ \A n \in SessionIds(minio, name) : n < id
                /\ new_session_id[name] < id
                /\ id \in SessionIds(minio', name)
                /\ SessionHistory(minio', name, id) = <<>>
                /\ current_session_id'[name] = id
                /\ list_sessions(minio', name)[1] = id
                /\ \A n \in SessionIds(minio, name) :
                      SessionHistory(minio', name, n) =
                          SessionHistory(minio, name, n)]_vars
    /\ [][\A name \in SpaceNames, msg \in Messages :
            AppendsAfterClear(name, msg) =>
                /\ SessionHistory(minio', name, new_session_id[name]) = <<msg>>
                /\ \A n \in Sessions \ {new_session_id[name]} :
                      SessionHistory(minio', name, n) =
                          SessionHistory(minio, name, n)]_vars

\* C20: the Space was cleared twice at least, the session of the last clear
\* is the latest and the active one, and a message has been appended to it
\* while an earlier session keeps its own
C20_AppendedToTheClearedSession ==
    /\ new_session_id[SpaceA] = 3
    /\ current_session_id[SpaceA] = 3
    /\ list_sessions(minio, SpaceA) = <<3, 2, 1>>
    /\ SessionHistory(minio, SpaceA, 3) = <<"answer">>
    /\ SessionHistory(minio, SpaceA, 1) = <<"question">>

\* C15: when a delete request of a Space has succeeded, the vector
\* collection of that Space no longer exists.
C15_DeleteDropsTheCollection ==
    [][\A name \in RequestNames :
          DeleteOk(name) => CollectionName(name) \notin collections']_vars

\* C16: a successful delete removes every object and the bucket of the
\* Space, evicts the Space from the cache and leaves the selection on
\* another Space or on none; a delete request that removes no bucket,
\* because the object store call fails, leaves the cache and the selection
\* as they were.
C16_DeleteRemovesOrLeavesTheRegistry ==
    /\ [][\A name \in RequestNames :
            DeleteOk(name) =>
                /\ ~BucketExists(minio', name)
                /\ minio'[SanitizeBucketName(name)] = NoBucketContents
                /\ FindBucket(buckets', name) = 0
                /\ current_bucket_name' # name]_vars
    /\ [][(deletes_issued' # deletes_issued
             /\ \A k \in StorageKeys : minio'[k].exists = minio[k].exists) =>
                /\ buckets' = buckets
                /\ current_bucket_name' = current_bucket_name]_vars

\* C16: the first Space was deleted; the delete of the second one failed
\* after its objects were removed, and it is still cached and selected
C16_OneDeletedOneFailed ==
    /\ deletes_issued = 2
    /\ FindBucket(buckets, SpaceA) = 0
    /\ minio[SanitizeBucketName(SpaceA)] = NoBucketContents
    /\ FindBucket(buckets, SpaceB) # 0
    /\ current_bucket_name = SpaceB
    /\ minio[SanitizeBucketName(SpaceB)] =
          [NoBucketContents EXCEPT !.exists = TRUE]

\* the display names of the cached Spaces
CachedNames == {buckets[i].name : i \in DOMAIN buckets}

\* C17: no two cached Spaces have the same storage key or the same
\* collection key, and a create request succeeds only when no cached Space
\* has the storage key derived from its name.
C17_KeysAreUnique ==
    /\ [](\A n1, n2 \in CachedNames :
            n1 # n2 =>
                /\ SanitizeBucketName(n1) # SanitizeBucketName(n2)
                /\ CollectionName(n1) # CollectionName(n2))
    /\ [][\A name \in RequestNames, dim \in {DefaultEmbeddingDim, ProbedDim} :
            CreateOk(name, dim) =>
                \A n \in CachedNames :
                    SanitizeBucketName(n) # SanitizeBucketName(name)]_vars

\* the stored config.json of every bucket
StoredConfigs(m) == [k \in StorageKeys |-> m[k].config_json]

Entries(bs) ==
    {[name |-> bs[i].name, embedding_dim |-> bs[i].embedding_dim,
      file_count |-> bs[i].file_count, last_indexed |-> bs[i].last_indexed] :
        i \in DOMAIN bs}

\* every bucket of the object store holds a config.json
EveryBucketConfigured == \A k \in StorageKeys : minio[k].exists => minio[k].config_json.present

\* C19: the cache rebuilt from the object store holds the same Spaces, with
\* the same name, config, file_count and last_indexed, as the cache in
\* memory.
C19_CacheIsRebuiltFromTheStore ==
    EveryBucketConfigured => Entries(_load_buckets(minio)) = Entries(buckets)

\* s is a prefix of t
IsPrefix(s, t) == Len(s) <= Len(t) /\ SubSeq(t, 1, Len(s)) = s

\* C21: a chat session is append-only: no step removes or overwrites a
\* message stored earlier, and an append that completes leaves its session
\* holding what it held followed by the appended message.
C21_SessionIsAppendOnly ==
    /\ [][\A id \in Sessions :
            IsPrefix(SessionHistory(minio, SpaceA, id),
                     SessionHistory(minio', SpaceA, id))]_vars
    /\ [][SaverPut =>
            SessionHistory(minio', saver.name, saver.session_file) =
                Append(SessionHistory(minio, saver.name, saver.session_file),
                       saver.msg)]_vars

\* the entry of the Space in current_session_id changes in this step
ActiveChanges(name) == current_session_id'[name] # current_session_id[name]

RECURSIVE Concat(_)
Concat(ss) == IF ss = <<>> THEN <<>> ELSE Head(ss) \o Concat(Tail(ss))

\* ceil(a / b) for b >= 1
Ceil(a, b) == (a + b - 1) \div b

Chunked == call.fn = "chunk" /\ call.done

\* ceil(L/C) chunks of length C, the last possibly shorter, that concatenate
\* to the text
ExactChunking ==
    /\ Len(call.result) = Ceil(Len(call.text), call.chunk_size)
    /\ \A k \in 1..Len(call.result) :
          /\ Len(call.result[k]) <= call.chunk_size
          /\ Len(call.result[k]) >= 1
          /\ k < Len(call.result) => Len(call.result[k]) = call.chunk_size
    /\ Concat(call.result) = call.text

\* C23 as stated: every extracted text of length L gives ceil(L/C) chunks of
\* length C, the last possibly shorter, that concatenate to the text
C23_EveryTextIsChunkedExactly == Chunked => ExactChunking

\* C23: every extracted text that is not blank gives ceil(L/C) chunks of
\* length C, the last possibly shorter, that concatenate to the text; a blank
\* text (empty or only whitespace) gives no chunk
C23_NonBlankTextIsChunkedExactly ==
    Chunked =>
        IF IsBlank(call.text) THEN call.result = <<>> ELSE ExactChunking

C23_ShorterLastChunk ==
    /\ Chunked
    /\ ~IsBlank(call.text)
    /\ Len(call.result) >= 2
    /\ Len(call.result[Len(call.result)]) < call.chunk_size

Fused == call.fn = "fuse" /\ call.done

\* the occurrences of a key in the input: list and 0-based rank
Occurrences(key) ==
    {<<l, r>> \in (1..Len(call.results_list)) \X (0..(MaxResults - 1)) :
        /\ r < Len(call.results_list[l])
        /\ DocKey(call.results_list[l][r + 1]) = key}

RECURSIVE SumOfRankScores(_)
SumOfRankScores(occ) ==
    IF occ = {} THEN 0
    ELSE LET o == CHOOSE o \in occ : TRUE
         IN  ScoreScale \div (o[2] + 60) + SumOfRankScores(occ \ {o})

\* the first occurrence of a key, counting the documents list after list
FirstOccurrence(key) ==
    LET o == CHOOSE o \in Occurrences(key) :
                \A q \in Occurrences(key) :
                    o[1] < q[1] \/ (o[1] = q[1] /\ o[2] <= q[2])
    IN  o[1] * MaxResults + o[2]

\* C24: every keyed document of the input is listed once; its score is the
\* sum of 1/(r + 60) over its occurrences at rank r, 2/60 when it is first in
\* both lists; the output is sorted by score descending, documents of equal
\* score in the order of their first occurrence across the lists
C24_FusionScoresAndOrder ==
    Fused =>
        LET out == call.final_results IN
        /\ call.result = [p \in 1..Len(out) |-> out[p].doc]
        /\ \A p \in 1..Len(out) :
              /\ Occurrences(out[p].key) # {}
              /\ DocKey(out[p].doc) = out[p].key
              /\ out[p].score = SumOfRankScores(Occurrences(out[p].key))
              /\ Occurrences(out[p].key) = {<<1, 0>>, <<2, 0>>}
                    => out[p].score * 60 = 2 * ScoreScale
        /\ \A l \in 1..Len(call.results_list) :
              \A r \in 1..Len(call.results_list[l]) :
                  \E p \in 1..Len(out) :
                      out[p].key = DocKey(call.results_list[l][r])
        /\ \A p, q \in 1..Len(out) : p # q => out[p].key # out[q].key
        /\ \A p, q \in 1..Len(out) :
              p < q =>
                  \/ out[p].score > out[q].score
                  \/ /\ out[p].score = out[q].score
                     /\ FirstOccurrence(out[p].key) < FirstOccurrence(out[q].key)

\* a document first in both lists, and two documents of equal score
C24_FirstInBothAndATie ==
    /\ Fused
    /\ \E p \in 1..Len(call.final_results) :
          Occurrences(call.final_results[p].key) = {<<1, 0>>, <<2, 0>>}
    /\ \E p, q \in 1..Len(call.final_results) :
          /\ p # q
          /\ call.final_results[p].score = call.final_results[q].score

\* the keys of a list of documents, in its order
KeysOf(docs) == [p \in 1..Len(docs) |-> DocKey(docs[p])]

\* the same lists passed in the opposite order
Swapped(results_list) ==
    [l \in 1..Len(results_list) |-> results_list[Len(results_list) + 1 - l]]

\* C25: fusing the same result lists passed in the opposite order gives the
\* documents in the same order
C25_ListOrderDoesNotMatter ==
    Fused =>
        KeysOf(call.result) =
            KeysOf(reciprocal_rank_fusion(Swapped(call.results_list)))

Reranked == call.fn = "rerank" /\ call.done

RerankSucceeds ==
    call.enable_reranking /\ call.outcome = "scored" /\ call.candidates # <<>>

\* the candidates no earlier candidate shares its first 100 characters with
KeptCandidates ==
    {i \in 1..Len(call.candidates) :
        \A j \in 1..(i - 1) :
            <<call.candidates[j].head, call.candidates[j].tail>> #
                <<call.candidates[i].head, call.candidates[i].tail>>}

\* the score of a kept candidate: the pairs are scored in candidate order
ScoreOfKept(i) == call.scores[Cardinality({j \in KeptCandidates : j <= i})]

\* C26: without a successful reranking the result is the first top_k fused
\* candidates; after a successful one it is the candidates, one per first
\* 100 characters of content, by rerank score descending, cut at top_k; the
\* result never has more than top_k chunks
C26_RerankerNeverFailsRetrieval ==
    Reranked =>
        /\ Len(call.result) <= call.top_k
        /\ ~RerankSucceeds =>
              call.result =
                  SubSeq(call.candidates, 1,
                         IF call.top_k < Len(call.candidates)
                         THEN call.top_k ELSE Len(call.candidates))
        /\ RerankSucceeds =>
              \E pick \in [1..Len(call.result) -> KeptCandidates] :
                  /\ \A p \in 1..Len(call.result) :
                        call.result[p] = call.candidates[pick[p]]
                  /\ \A p, q \in 1..Len(call.result) :
                        p < q =>
                            \/ ScoreOfKept(pick[p]) > ScoreOfKept(pick[q])
                            \/ /\ ScoreOfKept(pick[p]) = ScoreOfKept(pick[q])
                               /\ pick[p] < pick[q]
                  /\ \A i \in KeptCandidates :
                        (\A p \in 1..Len(call.result) : pick[p] # i) =>
                            /\ Len(call.result) = call.top_k
                            /\ \A p \in 1..Len(call.result) :
                                  ScoreOfKept(pick[p]) >= ScoreOfKept(i)

\* a successful reranking that drops a duplicate and moves a later
\* candidate to the front
C26_RerankedAndDeduplicated ==
    /\ Reranked
    /\ RerankSucceeds
    /\ Cardinality(KeptCandidates) < Len(call.candidates)
    /\ call.result # <<>>
    /\ call.result[1] # call.candidates[1]

Sanitized(fn) == call.fn = fn /\ call.done /\ ~call.raised

\* C27: sanitizing the value a sanitizer returned returns that value: the
\* bucket, the collection and the filename sanitizer
C27_SanitizersAreIdempotent ==
    /\ Sanitized("sanitize_bucket_name") =>
          sanitize_bucket_name(call.result) = call.result
    /\ Sanitized("sanitize_collection_name") =>
          sanitize_collection_name(call.result) = call.result
    /\ Sanitized("sanitize_filename") =>
          sanitize_filename(call.result) =
              [raised |-> FALSE, value |-> call.result]

\* C28: the storage key of every name has 3 to 63 characters of
\* [a-z0-9.-] and begins and ends with a letter or a digit
C28_StorageKeyIsAValidBucketName ==
    Sanitized("_sanitize_bucket_name") =>
        /\ Len(call.result) >= 3
        /\ Len(call.result) <= 63
        /\ \A i \in 1..Len(call.result) :
              call.result[i] \in Lower \cup Digits \cup {".", "-"}
        /\ call.result[1] \in Lower \cup Digits
        /\ call.result[Len(call.result)] \in Lower \cup Digits

Validated == call.fn = "validate_url" /\ call.done

\* C29: an accepted URL has the scheme http or https, a host that is neither
\* localhost nor a private, loopback, link-local, reserved or multicast
\* address, and a port, when it names one, in 1..65535 and none of 22, 23,
\* 25, 3389; a URL that is not accepted is rejected with a message
C29_OnlySafeUrlsAreAccepted ==
    Validated =>
        /\ call.result.valid =>
              /\ call.url.scheme \in {"http", "https", "HTTP"}
              /\ call.url.host.name \notin {"none", "localhost"}
              /\ call.url.host.kind = "ip" =>
                    /\ ~call.url.host.is_private
                    /\ ~call.url.host.is_loopback
                    /\ ~call.url.host.is_link_local
                    /\ ~call.url.host.is_reserved
                    /\ ~call.url.host.is_multicast
              /\ call.url.port.given =>
                    /\ call.url.port.number >= 1
                    /\ call.url.port.number <= 65535
                    /\ call.url.port.number \notin {22, 23, 25, 3389}
        /\ ~call.result.valid => call.result.message # "none"

\* job j leaves run() at the stop check that follows the processing of the
\* files, with chunks it has embedded
StoppedWithChunks(j) ==
    /\ WAfterProcess(j)
    /\ StopRequested(j)
    /\ worker[j].data # <<>>

\* C30: when a stop request ends a job that has embedded chunks, the chunks
\* are in the collection of the Space as the job ends
C30_StoppedJobKeepsItsChunks ==
    [][\A j \in Jobs :
          StoppedWithChunks(j) =>
              Range(worker[j].data) \subseteq
                  entities'[CollectionName(worker[j].bucket)].rows]_vars

\* the file job j is processing
CurrentFile(j) == worker[j].files[worker[j].file_idx]

\* the extraction or an embedding call of job j raises in this step and the
\* file is reported with file_error
FileFails(j) ==
    /\ WExtract(j) \/ WEmbedding(j)
    /\ worker'[j].em = Error("file_error", j)

\* C31: a file whose extraction or processing fails is reported and
\* skipped: the insert batch holds no chunk of it and the job goes on to the
\* end of the file, from where it takes the next file
C31_FailedFileContributesNothing ==
    [][\A j \in Jobs :
          FileFails(j) =>
              /\ worker'[j].pc = "file_done"
              /\ \A i \in 1..Len(worker'[j].data) :
                    worker'[j].data[i].filename # CurrentFile(j)]_vars

\* the rows of job j's batch are in the collection of its Space
BatchInserted(j) ==
    Range(worker[j].data) \subseteq
        entities[CollectionName(worker[j].bucket)].rows

\* the BM25 build of job j has just failed
Bm25Failed(j) ==
    worker[j].pc = "complete" /\ worker[j].em = Error("error", j)

\* C32: the BM25 step of a job runs only with the batch of the job inserted,
\* and its failure is not fatal: the rows stay in the collection, the job
\* goes on to emit `complete`, ends, and is_running is reset
C32_Bm25FailureIsNotFatal ==
    /\ [][\A j \in Jobs :
             WBm25(j) =>
                 /\ BatchInserted(j)
                 /\ UNCHANGED entities
                 /\ worker'[j].pc = "complete"]_vars
    /\ \A j \in Jobs :
          /\ [](Bm25Failed(j) => BatchInserted(j))
          /\ Bm25Failed(j) ~>
                (worker[j].pc = "finally" /\ IsComplete(worker[j].em)
                 /\ BatchInserted(j))
          /\ Bm25Failed(j) ~> (worker[j].pc = "done" /\ ~is_running)

\* a job whose BM25 build failed has ended with `complete`: the error event
\* and after it the complete event are queued, the rows are in the collection
C32_CompletedAfterBm25Failure ==
    /\ worker[1].pc = "done"
    /\ ~is_running
    /\ entities[CollectionName(SpaceA)].rows # {}
    /\ \E i, k \in 1..Len(progress_queue) :
          /\ i < k
          /\ progress_queue[i].type = "error"
          /\ progress_queue[i].data_type = "error"
          /\ progress_queue[k].type = "complete"


\* C33: a run on an indexed Space removes chunks only of the files it indexes
\* again in that run: a step that takes chunks of a file out of the collection
\* is a step of a job that has the file among the files it processes, so the
\* chunks of the files that are unchanged or no longer uploaded stay
C33_ReindexDeletesOnlyWhatItReindexes ==
    [][\A f \in Files :
          RowsOf(entities, f) \ RowsOf(entities', f) # {} =>
              \E j \in Jobs :
                  /\ worker[j].pc \notin {"idle", "done"}
                  /\ worker[j].bucket = SpaceA
                  /\ f \in Range(worker[j].files)]_vars


\* the BM25 artifact of a bucket holds the batch of job j: one entry per
\* chunk of the batch, in the order of the batch, the content and the
\* filename at one position being those of the same chunk
HoldsTheBatch(index, j) ==
    LET data == worker[j].data
    IN  /\ Len(index.contents) = Len(data)
        /\ Len(index.filenames) = Len(data)
        /\ \A i \in 1..Len(data) :
              /\ index.filenames[i] = data[i].filename
              /\ index.contents[i].file = data[i].filename
              /\ index.contents[i].chunk = data[i].chunk
              /\ index.contents[i].revision = data[i].revision

IndexedSparse(j) ==
    LET index == minio[SanitizeBucketName(worker[j].bucket)].bm25
    IN  {Entity(index.filenames[i], index.contents[i].chunk,
                index.contents[i].revision) : i \in 1..Len(index.contents)}

\* C35: when a job reports `complete`, the BM25 artifact of its Space and the
\* collection of its Space hold the same chunks, each as many times
C35_SparseAndDenseAgree ==
    \A j \in Jobs :
        ReportsComplete(j) =>
            /\ IndexedSparse(j) =
                   entities[CollectionName(worker[j].bucket)].rows
            /\ Len(minio[SanitizeBucketName(worker[j].bucket)].bm25.contents)
                   = Cardinality(entities[CollectionName(worker[j].bucket)].rows)


\* a queued event that ends a job: `complete`, `stopped` or the `error` of a
\* fatal failure (a file_error is reported through the same callback and is
\* not one)
IsTerminal(ev) ==
    \/ ev.type \in {"complete", "stopped"}
    \/ ev.type = "error" /\ ev.data_type = "error"

\* the positions of the terminal events of job j in the queue, which holds
\* every event emitted as long as no broadcaster takes from it
TerminalEvents(j) ==
    {i \in 1..Len(progress_queue) :
        progress_queue[i].job = j /\ IsTerminal(progress_queue[i])}

\* C36: no event of a job is emitted after a terminal event of the job, so a
\* job emits at most one terminal event and nothing follows `stopped` or the
\* `error` of a fatal failure; a job that has ended has emitted its terminal
\* event and last_progress is that event
C36_OneTerminalEventThenNothing ==
    \A j \in Jobs :
        /\ \A i \in TerminalEvents(j) :
              \A k \in (i + 1)..Len(progress_queue) :
                  progress_queue[k].job # j
        /\ worker[j].pc = "done" =>
              /\ Cardinality(TerminalEvents(j)) = 1
              /\ last_progress.job = j
              /\ IsTerminal(last_progress)


\* an event of job j with this type has been put on the queue
Emitted(j, type) ==
    \E k \in DOMAIN progress_queue :
        progress_queue[k].job = j /\ progress_queue[k].data_type = type

\* job i has ended and has left chunks of the files it indexed in the
\* collection of the first Space
IndexedBefore(i) ==
    /\ worker[i].pc = "done"
    /\ FullyIndexedBy(i)
    /\ Emitted(i, "creating_index")

\* job j is ending on a failure of run() and its insert has not been made:
\* `creating_index` is what run() emits once collection.insert has returned
FailedBeforeInsert(j) ==
    /\ worker[j].pc = "except"
    /\ worker[j].bucket = SpaceA
    /\ ~Emitted(j, "creating_index")
    /\ worker[j].em.type # "creating_index"

\* C37: a job on an indexed Space that fails before its insert leaves the
\* chunks of the files indexed before in the collection: when the job ends
\* that way the collection still holds chunks
C37_FailedReindexKeepsOldChunks ==
    \A i, j \in Jobs :
        (i # j /\ IndexedBefore(i) /\ FailedBeforeInsert(j)) =>
            entities[CollectionName(SpaceA)].rows # {}


\* C38: once the bucket of a Space has been deleted it stays absent from the
\* object store as long as the Space is not created again: no step of a job
\* and no request other than a create brings an absent bucket back
C38_DeletedBucketStaysAbsent ==
    [][\A b \in DOMAIN minio :
          ~minio[b].exists => ~minio'[b].exists]_vars


\* the walk has been indexed
Walked == call.fn = "walk" /\ call.done

\* the rows the collection holds for the file at position i of the walk:
\* those stored under the filename the indexer gave the file
RowsUnder(i) ==
    SelectSeq(call.result.rows,
              LAMBDA r : r.filename = basename(call.files[i]))

\* C39: two files of the same basename in different upload directories are
\* kept apart: after the run the rows stored for a file are chunks of that
\* file and of no other, and the fingerprint the run reports for a file is
\* the (size, mtime) of that file
C39_SameBasenameKeptApart ==
    Walked =>
        \A i \in 1..Len(call.files) :
            /\ \A n \in 1..Len(RowsUnder(i)) :
                  RowsUnder(i)[n].content =
                      <<call.files[i].dir, call.files[i].base>>
            /\ basename(call.files[i]) \in DOMAIN call.result.indexed_metadata
            /\ call.result.indexed_metadata[basename(call.files[i])] =
                   call.files[i].stat


\* C40: the selected Space name is unset or the name of a Space in the
\* registry cache, after any sequence of create, select and delete requests
C40_SelectionIsInTheCache ==
    \/ current_bucket_name = NoName
    \/ FindBucket(buckets, current_bucket_name) # 0
====
